---------------------------- MODULE Spec2Model ----------------------------
(***************************************************************************)
(* A model of the static contract-and-effect inference of deal's linter:   *)
(*   - deal/linter/_extractors/exceptions.py  (get_exceptions)             *)
(*   - deal/linter/_extractors/contracts.py   (_get_contracts)             *)
(*   - deal/linter/_extractors/pre.py         (handle_call)                *)
(*   - deal/linter/_stub.py                   (StubFile, StubsManager)     *)
(*   - deal/_runtime/_validators.py           (Validator)                  *)
(*   - deal/linter/_func.py                   (Func.from_ast/astroid)      *)
(* Five state machines share this module; each specification moves the     *)
(* variables of one of them and leaves the others at their idle values.    *)
(***************************************************************************)
EXTENDS Integers, Sequences, FiniteSets, TLC

VARIABLES
    \* ---- effect inference (exceptions.py) ----
    funcs,      \* the analysed module: function name -> [body, decorators]
    tree,       \* the definitions of the module as they are nested in the source
    stubs,      \* the Stub Store passed as `stubs`: qualified name -> RAISES values
    stack,      \* active get_exceptions generators, innermost last
    tokens,     \* tokens yielded so far by the outermost generator
    ncalls,     \* number of get_exceptions invocations made so far
    \* ---- precondition check at a call site (pre.py) ----
    call,       \* the call expression: [args, keywords, line, col]
    inferred,   \* what infer(expr.func) gives: a sequence of definitions
    pre,        \* where handle_call is: [stage, i, args, kwargs, contracts]
    ptokens,    \* tokens yielded so far by handle_call
    runs,       \* the result of every contract.run so far, with the token count
    \* ---- Stub Store (_stub.py) ----
    disk,       \* the file system: path -> [exists, text]
    inits,      \* the directories that hold an __init__.py
    objs,       \* the StubFile instances made so far: [path, content, synced]
    manager,    \* the StubsManager in use: [paths, modules]
    gen,        \* where generate_stub is: [pc, path, id, fi]
    last,       \* the last operation completed and its outcome
    \* ---- runtime validation (_validators.py) ----
    validation, \* the Validator and the call it validates
    verdict,    \* what the validation gave: the record passed, the result, the error
    \* ---- contract extraction (contracts.py, _func.py) ----
    source,     \* the module text as both parsers see it: assignments and definitions
    parse,      \* where Func.from_ast / Func.from_astroid is: [pc, backend, found, fi, steps]
    cstack,     \* active _get_contracts / _resolve_inherit generators, innermost last
    built       \* the Func lists built so far, by backend, and the one under construction

excVars == <<funcs, tree, stubs, stack, tokens, ncalls>>
preVars == <<call, inferred, pre, ptokens, runs>>
stubVars == <<disk, inits, objs, manager, gen, last>>
valVars == <<validation, verdict>>
conVars == <<source, parse, cstack, built>>
vars == <<excVars, preVars, stubVars, valVars, conVars>>

(***************************************************************************)
(* Bounds                                                                  *)
(***************************************************************************)
\* total number of body statements and decorated functions of a module
MaxNodes == 4
\* number of top-level statements of the body analysed in SpecNodes
MaxBody == 2
\* number of decorators of a called function in SpecPre
MaxDecorators == 2

(***************************************************************************)
(* Generic helpers                                                         *)
(***************************************************************************)
RECURSIVE Concat(_)
Concat(ss) == IF ss = <<>> THEN <<>> ELSE Head(ss) \o Concat(Tail(ss))

Range(s) == {s[i] : i \in 1..Len(s)}

Reverse(s) == [i \in 1..Len(s) |-> s[Len(s) + 1 - i]]

(***************************************************************************)
(* Syntax nodes.  Every node is a record of the same shape:                *)
(*   kind  "Assert" | "Raise" | "BinOp" | "Call" | "Assign" | "If" | "Pass"*)
(*   sub   Raise: shape of expr.exc  ("None" | "Name" | "Call" | "Other")  *)
(*         BinOp: the operator       ("/" | "%")                           *)
(*         Call:  shape of expr.func ("Name" | "Attr" | "Other")           *)
(*   name  the textual name get_name gives for expr.exc / expr.exc.func /  *)
(*         expr.func ("" when get_name gives None)                         *)
(*   right BinOp: the right operand [kind, tag, val, dl, col]; dl is the   *)
(*         number of lines the operand lies below the start of the BinOp   *)
(*   icol  Raise: col_offset of expr.exc                                   *)
(*   kids  child nodes: call arguments, the assigned value, the statements *)
(*         of a compound statement                                         *)
(*   line, col  position of the node                                       *)
(***************************************************************************)
NoRight == [kind |-> "None", tag |-> "none", val |-> 0, dl |-> 0, col |-> 0]

Const(tag, val, dl) == [kind |-> "Const", tag |-> tag, val |-> val, dl |-> dl, col |-> 8]
UnaryOp(tag, val)   == [kind |-> "UnaryOp", tag |-> tag, val |-> val, dl |-> 0, col |-> 8]
NameOperand         == [kind |-> "Name", tag |-> "none", val |-> 0, dl |-> 0, col |-> 8]

Node(kind, sub, name, right, kids) ==
    [kind |-> kind, sub |-> sub, name |-> name, right |-> right, icol |-> 10,
     kids |-> kids, line |-> 0, col |-> 4]

AssertStmt      == Node("Assert", "", "", NoRight, <<>>)
RaiseName(n)    == Node("Raise", "Name", n, NoRight, <<>>)
RaiseCall(n)    == Node("Raise", "Call", n, NoRight, <<>>)
RaiseOther      == Node("Raise", "Other", "", NoRight, <<>>)
ReRaise         == Node("Raise", "None", "", NoRight, <<>>)
BinOp(op, r)    == Node("BinOp", op, "", r, <<>>)
CallName(n, as) == Node("Call", "Name", n, NoRight, as)
CallAttr(n)     == Node("Call", "Attr", n, NoRight, <<>>)
AssignTo(v)     == Node("Assign", "", "", NoRight, <<v>>)
IfStmt(body)    == Node("If", "", "", NoRight, body)

\* line numbers: the i-th statement of a body lies on line i, with everything
\* nested in it (`if x: 1/0`, `f(g())`), nested nodes one column step further
RECURSIVE Stamp(_, _, _)
Stamp(n, line, col) ==
    [n EXCEPT !.line = line, !.col = col,
              !.kids = [k \in 1..Len(n.kids) |-> Stamp(n.kids[k], line, col + 2 * k)]]

StampBody(body) == [i \in 1..Len(body) |-> Stamp(body[i], i, 4)]

(***************************************************************************)
(* common.py is not part of the sources: traverse and get_name are         *)
(* modelled from sections 4.1 and 4.5 of the design.                       *)
(***************************************************************************)
\* traverse(body): every statement / expression of the body, pre-order
RECURSIVE traverse(_)
traverse(body) ==
    IF body = <<>> THEN <<>>
    ELSE <<Head(body)>> \o traverse(Head(body).kids) \o traverse(Tail(body))

\* names whose first character is lower case (str.islower on name[0])
LowerNames == {"exit", "sys.exit", "os._exit", "builtins.exit", "helper",
               "errors.Custom", "a", "b", "c", "ext", "lib"}
IsLower(name) == name \in LowerNames

\* the names `builtins` defines among those the model uses
BuiltinNames == {"AssertionError", "ZeroDivisionError", "SystemExit",
                 "ValueError", "KeyError", "OSError", "exit"}

\* getattr(builtins, name, name): the class for a builtin, else the string
Builtin(name) ==
    IF name \in BuiltinNames THEN [t |-> "type", n |-> name]
    ELSE [t |-> "str", n |-> name]

ClassOf(name) == [t |-> "type", n |-> name]
StrOf(name)   == [t |-> "str", n |-> name]

Token(value, line, col) == [value |-> value, line |-> line, col |-> col]

\* Python's `x == 0` on a literal: ints, floats and bools compare by number
PyEqZero(r) == r.tag \in {"int", "float", "bool"} /\ r.val = 0


(***************************************************************************)
(* Decorators (contracts.py).  A decorator node is                         *)
(*   [kind |-> "Attr", name]          a dotted name:     @deal.pure        *)
(*   [kind |-> "Call", name, args]    a call:            @deal.raises(E)   *)
(*   [kind |-> "Name", name, args]    a bare identifier; args holds the    *)
(*                                    value of its closest assignment, or  *)
(*                                    is empty when lookup finds none      *)
(* The arguments of a contract call are expressions [kind |-> "Expr", name]*)
(* (name = "" when get_name gives None); the arguments of deal.chain are   *)
(* decorator nodes.                                                        *)
(***************************************************************************)
SUPPORTED_CONTRACTS == {"deal.ensure", "deal.example", "deal.has", "deal.post",
                        "deal.pre", "deal.pure", "deal.raises", "deal.safe"}
SUPPORTED_MARKERS == {"deal.pure", "deal.safe", "deal.inherit"}

DecoAttr(n)     == [kind |-> "Attr", name |-> n, args |-> <<>>]
DecoCall(n, as) == [kind |-> "Call", name |-> n, args |-> as]
DecoName(n, as) == [kind |-> "Name", name |-> n, args |-> as]
ExprName(n)     == [kind |-> "Expr", name |-> n, args |-> <<>>]

\* name.split('.')[-1] for the dotted names of the two tables above
LastPart(name) ==
    CASE name = "deal.ensure"  -> "ensure"
      [] name = "deal.example" -> "example"
      [] name = "deal.has"     -> "has"
      [] name = "deal.post"    -> "post"
      [] name = "deal.pre"     -> "pre"
      [] name = "deal.pure"    -> "pure"
      [] name = "deal.raises"  -> "raises"
      [] name = "deal.safe"    -> "safe"
      [] name = "deal.inherit" -> "inherit"
      [] OTHER                 -> name

ContractInfo(name, args) == [name |-> name, args |-> args]

\* _resolve_inherit for a decorator of a module-level function: no parent
\* class, so nothing is yielded
ResolveInheritNoClass == <<>>

\* _get_contracts(decorators): the ContractInfo sequence of a decorator list
RECURSIVE GetContracts(_)
GetContracts(decorators) ==
    IF decorators = <<>> THEN <<>>
    ELSE LET contract == Head(decorators)
             here ==
                 CASE contract.kind = "Attr" ->
                        IF contract.name \notin SUPPORTED_MARKERS THEN <<>>
                        ELSE <<ContractInfo(LastPart(contract.name), <<>>)>>
                             \o (IF contract.name = "deal.inherit"
                                 THEN ResolveInheritNoClass ELSE <<>>)
                   [] contract.kind = "Call" ->
                        (IF contract.name = "deal.chain"
                         THEN GetContracts(contract.args) ELSE <<>>)
                        \o (IF contract.name \notin SUPPORTED_CONTRACTS THEN <<>>
                            ELSE <<ContractInfo(LastPart(contract.name), contract.args)>>)
                   [] contract.kind = "Name" ->
                        IF contract.args = <<>> THEN <<>>
                        ELSE GetContracts(contract.args)
                   [] OTHER -> <<>>
         IN  here \o GetContracts(Tail(decorators))

(***************************************************************************)
(* Effect inference (exceptions.py)                                        *)
(***************************************************************************)
FuncNames == {"a", "b", "c"}
Entry == "a"

\* get_names(expr): the Name nodes of the functions an expression calls
RECURSIVE get_names(_)
GetNamesOfAll(nodes) == Concat([k \in 1..Len(nodes) |-> get_names(nodes[k])])
get_names(expr) ==
    (IF expr.kind = "Assign" THEN get_names(expr.kids[1]) ELSE <<>>)
    \o (IF expr.kind = "Call"
        THEN (IF expr.sub = "Name"
              THEN <<[name |-> expr.name, line |-> expr.line, col |-> expr.col]>>
              ELSE <<>>)
             \o GetNamesOfAll(expr.kids)
        ELSE <<>>)

\* name_node.infer(): the definitions a name may refer to; a name the module
\* does not define raises NameInferenceError (no guesses)
Infer(name) == IF name \in FuncNames THEN <<name>> ELSE <<>>

\* a raise branch that takes only upper-case names for exceptions
RaisedNameUpperOnly(expr) ==
    IF expr.name = "" \/ IsLower(expr.name) THEN ""
    ELSE IF expr.sub \in {"Name", "Call"} THEN expr.name
    ELSE ""

\* the name the raise branch makes a token of, "" when it yields none
\* (lines 25-34): the name of the raised expression, or the name of the
\* callee of a raised call unless its first character is lower case
RaisedName(expr) ==
    IF expr.sub = "Name" THEN expr.name
    ELSE IF expr.sub # "Call" THEN ""
    ELSE IF expr.name = "" \/ IsLower(expr.name) THEN ""
    ELSE expr.name

\* the dotted names that end in `.exit`
DottedExit == {"sys.exit", "builtins.exit"}

\* an exit test that takes every dotted `.exit`
IsExitOfAnyModule(expr) ==
    \/ expr.name = "exit"
    \/ expr.sub = "Attr" /\ expr.name \in DottedExit

\* the two tests of the call branch (lines 53-63): the name is `exit`, or the
\* callee is an attribute whose dotted name is `sys.exit`
IsExit(expr) ==
    \/ expr.name = "exit"
    \/ expr.sub = "Attr" /\ expr.name = "sys.exit"

\* the statements of get_exceptions' loop body that end in `continue`:
\* the token yielded for one expression, if any (lines 19-63)
Direct(expr) ==
    LET line == expr.line
        col  == expr.col
    IN
    CASE expr.kind = "Assert" ->
           <<Token(ClassOf("AssertionError"), line, col)>>
      [] expr.kind = "Raise" ->
           IF RaisedName(expr) = "" THEN <<>>
           ELSE <<Token(Builtin(RaisedName(expr)), line, expr.icol)>>
      [] expr.kind = "BinOp" ->
           IF expr.sub = "/" /\ expr.right.kind = "Const" /\ PyEqZero(expr.right)
           THEN <<Token(ClassOf("ZeroDivisionError"), line, expr.right.col)>>
           ELSE <<>>
      [] expr.kind = "Call" ->
           IF IsExit(expr) THEN <<Token(ClassOf("SystemExit"), line, col)>>
           ELSE <<>>
      [] OTHER -> <<>>

\* whether the loop body reaches `if dive:` for this expression
\* (a raise statement always ends in `continue`, the others when they yield)
ReachesDive(expr) == expr.kind # "Raise" /\ Direct(expr) = <<>>

\* a callee analysed with dive left at its default
CalleeDiveDefault == TRUE

\* the `dive` argument of the recursive get_exceptions call (line 91)
CalleeDive == FALSE

\* names declared by the callee's `@deal.raises` (lines 94-104)
DeclaredRaises(fn) ==
    LET cs == GetContracts(funcs[fn].decorators)
        raisesArgs == Concat([k \in 1..Len(cs) |->
                          IF cs[k].name = "raises" THEN cs[k].args ELSE <<>>])
    IN  SelectSeq([k \in 1..Len(raisesArgs) |-> raisesArgs[k].name],
                  LAMBDA n: n # "")

\* a generator frame of get_exceptions(body, dive); todo holds the guesses
\* _exceptions_from_funcs has still to analyse for the current expression
Frame(fn, dive, site) ==
    [fn |-> fn, body |-> traverse(funcs[fn].body), i |-> 1, dive |-> dive,
     site |-> site, todo |-> <<>>]

NoSite == [line |-> 0, col |-> 0]

\* _exceptions_from_funcs wraps what the callee yields at the position of the
\* name node of the outermost call (line 92)
Yield(toks) ==
    IF Len(stack) >= 2
    THEN [k \in 1..Len(toks) |->
             Token(toks[k].value, stack[2].site.line, stack[2].site.col)]
    ELSE toks

\* the function definitions _exceptions_from_funcs finds for one expression,
\* each with the position of the name node that led to it (lines 71-88)
Guesses(expr) ==
    LET names == get_names(expr)
    IN  Concat([k \in 1..Len(names) |->
            [g \in 1..Len(Infer(names[k].name)) |->
                [fn |-> Infer(names[k].name)[g],
                 site |-> [line |-> names[k].line, col |-> names[k].col]]]])

Top == stack[Len(stack)]

\* one iteration of `for expr in traverse(body)` in the innermost generator
Iterate ==
    /\ stack # <<>>
    /\ Top.todo = <<>>
    /\ Top.i <= Len(Top.body)
    /\ LET expr == Top.body[Top.i]
       IN  /\ tokens' = tokens \o Yield(Direct(expr))
           /\ stack' = [stack EXCEPT ![Len(stack)].i = @ + 1,
                                     ![Len(stack)].todo =
                                         IF Top.dive /\ ReachesDive(expr)
                                         THEN Guesses(expr) ELSE <<>>]
    /\ UNCHANGED <<funcs, tree, stubs, ncalls, preVars, stubVars, valVars, conVars>>

\* _exceptions_from_funcs starts get_exceptions on the body of the next guess
Dive ==
    /\ stack # <<>>
    /\ Top.todo # <<>>
    /\ stack' = [stack EXCEPT ![Len(stack)].todo = Tail(@)]
                \o <<Frame(Head(Top.todo).fn, CalleeDive, Head(Top.todo).site)>>
    /\ ncalls' = ncalls + 1
    /\ UNCHANGED <<funcs, tree, stubs, tokens, preVars, stubVars, valVars, conVars>>

\* a generator is exhausted: a callee's declared raises are yielded at the
\* call site and control returns to the caller
Return ==
    /\ stack # <<>>
    /\ Top.todo = <<>>
    /\ Top.i > Len(Top.body)
    /\ tokens' = IF Len(stack) >= 2
                 THEN tokens \o [k \in 1..Len(DeclaredRaises(Top.fn)) |->
                                    Token(StrOf(DeclaredRaises(Top.fn)[k]),
                                          stack[2].site.line, stack[2].site.col)]
                 ELSE tokens
    /\ stack' = SubSeq(stack, 1, Len(stack) - 1)
    /\ UNCHANGED <<funcs, tree, stubs, ncalls, preVars, stubVars, valVars, conVars>>

NextExc == Iterate \/ Dive \/ Return

(***************************************************************************)
(* Specification SpecExc: every module of three functions a, b, c with at  *)
(* most MaxNodes statements and decorated functions in all; get_exceptions *)
(* is run on the body of a.                                                *)
(***************************************************************************)
Unresolved == {"ext", "lib"}

\* the statements the bodies of SpecExc are made of
ExcAlphabet ==
    {CallName(f, <<>>) : f \in FuncNames} \cup {RaiseName("ValueError")}

\* the decorator lists of SpecExc
DecoMenu ==
    { <<>>,
      <<DecoCall("deal.raises", <<ExprName("KeyError")>>)>>,
      <<DecoCall("deal.chain", <<DecoCall("deal.raises", <<ExprName("ValueError")>>),
                                 DecoAttr("deal.pure")>>)>> }

\* the Stub Store: what a stub records as RAISES for a qualified name
StubsWithExt == [n \in Unresolved |-> IF n = "ext" THEN {"OSError"} ELSE {}]
StubsEmpty   == [n \in Unresolved |-> {}]

Func(body, decorators) == [body |-> StampBody(body), decorators |-> decorators]

\* a statement of the module or of a class body as _get_funcs_from_expr
\* sees it: a function definition, a class definition with its body, or
\* anything else; the body of a function is funcs[name].body
FuncDefExpr(name) == [kind |-> "FunctionDef", name |-> name, body |-> <<>>]
ClassDefExpr(name, body) == [kind |-> "ClassDef", name |-> name, body |-> body]
OtherExpr == [kind |-> "Assign", name |-> "", body |-> <<>>]

\* a module of three functions a, b and c
FlatTree == <<FuncDefExpr("a"), FuncDefExpr("b"), FuncDefExpr("c")>>

\* generate_stub is not running; no operation of the Stub Store was made
GenIdle == [pc |-> "idle", id |-> 0, fi |-> 0]
NoOp == [op |-> "", id |-> 0, raised |-> "", changed |-> FALSE]

\* the Stub Store is not in use: no file, no instance
StubIdle ==
    /\ disk = <<>>
    /\ inits = {}
    /\ objs = <<>>
    /\ manager = [paths |-> <<>>, modules |-> <<>>]
    /\ gen = GenIdle
    /\ last = NoOp

\* no Validator is in use
ValIdle ==
    /\ validation = <<>>
    /\ verdict = <<>>

\* no module is being parsed into Func values
ConIdle ==
    /\ source = <<>>
    /\ parse = <<>>
    /\ cstack = <<>>
    /\ built = <<>>

\* no call site is being checked
PreIdle ==
    /\ call = [args |-> <<>>, keywords |-> <<>>, line |-> 0, col |-> 0]
    /\ inferred = <<>>
    /\ pre = [stage |-> "done", i |-> 1, k |-> 1, args |-> <<>>, kwargs |-> <<>>,
              contracts |-> <<>>]
    /\ ptokens = <<>>
    /\ runs = <<>>

ExcStart ==
    /\ tree = FlatTree
    /\ stack = <<Frame(Entry, TRUE, NoSite)>>
    /\ tokens = <<>>
    /\ ncalls = 1

InitExc ==
    /\ \E la \in 0..MaxNodes : \E lb \in 0..(MaxNodes - la) :
         \E lc \in 0..(MaxNodes - la - lb) :
           \E ba \in [1..la -> ExcAlphabet], bb \in [1..lb -> ExcAlphabet],
              bc \in [1..lc -> ExcAlphabet], da \in DecoMenu, db \in DecoMenu,
              dc \in DecoMenu :
             /\ la + lb + lc + Len(da) + Len(db) + Len(dc) <= MaxNodes
             /\ funcs = [f \in FuncNames |->
                           CASE f = "a" -> Func(ba, da)
                             [] f = "b" -> Func(bb, db)
                             [] OTHER   -> Func(bc, dc)]
    /\ stubs = StubsEmpty
    /\ ExcStart
    /\ PreIdle
    /\ ValIdle
    /\ ConIdle
    /\ StubIdle

SpecExc == InitExc /\ [][NextExc]_vars

(***************************************************************************)
(* Specification SpecNodes: get_exceptions on every body of at most        *)
(* MaxBody statements drawn from all the statement shapes the loop body    *)
(* distinguishes, in a module with two fixed callees.                      *)
(***************************************************************************)
ZeroInt   == Const("int", 0, 0)
ZeroFloat == Const("float", 0, 0)
ZeroBelow == Const("int", 0, 1)  \* the divisor on the line after the dividend

NodeAlphabet ==
    { AssertStmt, ReRaise, RaiseOther,
      RaiseName("ValueError"), RaiseName("MyError"), RaiseName("helper"),
      RaiseCall("KeyError"), RaiseCall("helper"), RaiseCall(""),
      RaiseCall("errors.Custom"), CallAttr("builtins.exit"),
      BinOp("/", ZeroInt), BinOp("/", ZeroFloat), BinOp("/", ZeroBelow),
      BinOp("/", Const("bool", 0, 0)), BinOp("/", Const("int", 1, 0)),
      BinOp("/", Const("str", 0, 0)), BinOp("/", UnaryOp("int", 0)),
      BinOp("/", NameOperand), BinOp("%", ZeroInt),
      CallName("exit", <<>>), CallAttr("sys.exit"), CallAttr("lib.helper"),
      CallName("b", <<>>), CallName("ext", <<>>), CallName("lib", <<>>),
      CallName("b", <<CallName("c", <<>>)>>), AssignTo(CallName("c", <<>>)),
      AssignTo(BinOp("/", ZeroInt)), IfStmt(<<BinOp("/", ZeroFloat)>>),
      Node("Pass", "", "", NoRight, <<>>) }

\* the two callees of SpecNodes:
\*   @deal.raises(KeyError)
\*   def b(): raise ValueError; c()
\*   def c(): 1 / 0
LibraryB ==
    Func(<<RaiseName("ValueError"), CallName("c", <<>>)>>,
         <<DecoCall("deal.raises", <<ExprName("KeyError")>>)>>)
LibraryC == Func(<<BinOp("/", ZeroInt)>>, <<>>)

InitNodes ==
    /\ \E la \in 0..MaxBody : \E ba \in [1..la -> NodeAlphabet] :
         funcs = [f \in FuncNames |->
                    CASE f = "a" -> Func(ba, <<>>)
                      [] f = "b" -> LibraryB
                      [] OTHER   -> LibraryC]
    /\ stubs \in {StubsWithExt, StubsEmpty}
    /\ ExcStart
    /\ PreIdle
    /\ ValIdle
    /\ ConIdle
    /\ StubIdle

SpecNodes == InitNodes /\ [][NextExc]_vars

(***************************************************************************)
(* Properties of effect inference                                          *)
(***************************************************************************)
Done == stack = <<>>

TokenNames == {tokens[k].value.n : k \in 1..Len(tokens)}

\* the exceptions the statements of fn's own body raise
DirectNames(fn) ==
    LET body == traverse(funcs[fn].body)
    IN  {t.value.n : t \in UNION {Range(Direct(body[k])) : k \in 1..Len(body)}}

\* the call sites in fn's body that resolve to a function of the module
ResolvedCallSites(fn) ==
    LET body == traverse(funcs[fn].body)
        names == Concat([k \in 1..Len(body) |->
                     IF ReachesDive(body[k]) THEN get_names(body[k]) ELSE <<>>])
    IN  SelectSeq(names, LAMBDA n : n.name \in FuncNames)

\* the functions fn calls directly
DirectCallees(fn) == {n.name : n \in Range(ResolvedCallSites(fn))}

DeclaredNames(fn) == Range(DeclaredRaises(fn))

\* what one call level gives for fn
OneLevelNames(fn) ==
    DirectNames(fn)
    \cup UNION {DirectNames(g) \cup DeclaredNames(g) : g \in DirectCallees(fn)}

C2_Terminates ==
    /\ Len(stack) <= 2
    /\ \A k \in 2..Len(stack) : ~stack[k].dive
    /\ \A k \in 1..Len(stack) : stack[k].i <= Len(stack[k].body) + 1
    /\ ncalls <= 1 + Len(ResolvedCallSites(Entry))
    /\ ~Done => ENABLED NextExc

\* the analysis of a self-recursive a that is also in a cycle with b finished
C2_RecursionAnalysed ==
    /\ Done
    /\ "a" \in DirectCallees("a")
    /\ "b" \in DirectCallees("a")
    /\ "a" \in DirectCallees("b")
    /\ ncalls >= 3

\* the call sites of unresolvable callees in the analysed body
UnresolvedCallSites(fn) ==
    LET body == traverse(funcs[fn].body)
        names == Concat([k \in 1..Len(body) |->
                     IF ReachesDive(body[k]) THEN get_names(body[k]) ELSE <<>>])
    IN  SelectSeq(names, LAMBDA n : n.name \in Unresolved)

\* C3: for every call of the analysed body whose callee has no local
\* definition, the finished analysis holds one token per RAISES value the
\* Stub Store records for the callee, at the call's position (and none when
\* the store has no record).
C3_StubFallback ==
    Done =>
      \A n \in Range(UnresolvedCallSites(Entry)) :
        \A v \in stubs[n.name] :
          \E k \in 1..Len(tokens) :
            tokens[k].value.n = v /\ tokens[k].line = n.line /\ tokens[k].col = n.col

\* C4: for every division in the analysed body whose right operand is a
\* literal equal to zero, the finished analysis holds a ZeroDivisionError
\* token at the line and column of the divisor.
C4_DivisionByZeroAtDivisor ==
    Done =>
      LET body == traverse(funcs[Entry].body)
      IN  \A i \in 1..Len(body) :
            (/\ body[i].kind = "BinOp" /\ body[i].sub = "/"
             /\ body[i].right.kind = "Const" /\ PyEqZero(body[i].right))
            => \E k \in 1..Len(tokens) :
                 /\ tokens[k].value = ClassOf("ZeroDivisionError")
                 /\ tokens[k].line = body[i].line + body[i].right.dl
                 /\ tokens[k].col = body[i].right.col

\* the analysed body, every statement and expression of it
EntryBody == traverse(funcs[Entry].body)

\* whether the finished analysis holds a token of this value at this place
HasToken(value, line, col) ==
    \E k \in 1..Len(tokens) :
        tokens[k].value = value /\ tokens[k].line = line /\ tokens[k].col = col

TokenAt(line, col) ==
    \E k \in 1..Len(tokens) : tokens[k].line = line /\ tokens[k].col = col

\* an exception-looking name: it does not start with a lower-case letter
LooksLikeException(name) == name # "" /\ ~IsLower(name)

\* C23 as stated: a raise of an exception-looking bare name, or of a call
\* whose callee name is upper-camel, has a token of the named category at
\* the raised expression; a raise of a lower-case name, of a call whose
\* callee name starts lower-case, of an un-named expression, and a bare
\* re-raise have no token.
C23_RaiseClassified ==
    Done =>
      \A i \in 1..Len(EntryBody) :
        LET e == EntryBody[i]
        IN  e.kind = "Raise" =>
              IF e.sub \in {"Name", "Call"} /\ LooksLikeException(e.name)
              THEN HasToken(Builtin(e.name), e.line, e.icol)
              ELSE ~TokenAt(e.line, e.icol)

\* C23: a raise of a named expression, whatever the case of the name, has a
\* token of that name at the raised expression, and so has a raise of a
\* call whose callee name does not start with a lower-case letter; a raise
\* of a call whose callee name starts lower-case or has no name, of any
\* other un-named expression, and a bare re-raise have no token.
C23_NamedRaiseClassified ==
    Done =>
      \A i \in 1..Len(EntryBody) :
        LET e == EntryBody[i]
        IN  e.kind = "Raise" =>
              IF \/ e.sub = "Name"
                 \/ e.sub = "Call" /\ LooksLikeException(e.name)
              THEN HasToken(Builtin(e.name), e.line, e.icol)
              ELSE ~TokenAt(e.line, e.icol)

\* `raise helper` and `raise helper()` analysed: one token, for the first
C23_LowerCaseNameRaised ==
    /\ Done
    /\ funcs[Entry].body = StampBody(<<RaiseName("helper"), RaiseCall("helper")>>)
    /\ tokens = <<Token(StrOf("helper"), 1, 10)>>

\* the calls of the analysed body written as `exit(...)` or `<module>.exit(...)`
ExitCalls ==
    SelectSeq(EntryBody, LAMBDA e : /\ e.kind = "Call"
                                    /\ \/ e.sub = "Name" /\ e.name = "exit"
                                       \/ e.sub = "Attr" /\ e.name \in DottedExit)

\* C24 as stated: every call written as `exit(...)` or as a dotted
\* `<module>.exit(...)` has a SystemExit token at the position of the call.
C24_ExitCallsFlagged ==
    Done =>
      \A i \in 1..Len(ExitCalls) :
        HasToken(ClassOf("SystemExit"), ExitCalls[i].line, ExitCalls[i].col)

\* C24: every call written as `exit(...)` or as `sys.exit(...)` has a
\* SystemExit token at the position of the call, and a call of `.exit` of
\* any other module has none.
C24_ExitAndSysExitFlagged ==
    Done =>
      \A i \in 1..Len(ExitCalls) :
        HasToken(ClassOf("SystemExit"), ExitCalls[i].line, ExitCalls[i].col)
          <=> ExitCalls[i].name \in {"exit", "sys.exit"}

\* `sys.exit()` and `builtins.exit()` analysed: one token, for the first
C24_OnlySysExitFlagged ==
    /\ Done
    /\ funcs[Entry].body = StampBody(<<CallAttr("sys.exit"), CallAttr("builtins.exit")>>)
    /\ tokens = <<Token(ClassOf("SystemExit"), 1, 4)>>

(***************************************************************************)
(* Precondition check at a call site (pre.py)                              *)
(*                                                                         *)
(* Python values are records [t, n, s]: t the type, n the number of an int *)
(* or bool, s the text of a str.                                           *)
(***************************************************************************)
IntV(n)   == [t |-> "int", n |-> n, s |-> ""]
StrV(str) == [t |-> "str", n |-> 0, s |-> str]
BoolV(b)  == [t |-> "bool", n |-> IF b THEN 1 ELSE 0, s |-> ""]
NoneV     == [t |-> "NoneType", n |-> 0, s |-> ""]
UNKNOWN   == [t |-> "UNKNOWN", n |-> 0, s |-> ""]
\* the outcome of a run that raised NameError
NameError == [t |-> "NameError", n |-> 0, s |-> ""]

\* argument expressions of a call
Lit(v)   == [kind |-> "Const", val |-> v]
Neg(v)   == [kind |-> "UnaryOp", val |-> v]
NameArg  == [kind |-> "Name", val |-> NoneV]
Keyword(arg, value) == [arg |-> arg, value |-> value]

\* value.py is not part of the sources: get_value is modelled from section
\* 4.2 (literals, unary negation of a literal number, else UNKNOWN)
get_value(expr) ==
    CASE expr.kind = "Const" -> expr.val
      [] expr.kind = "UnaryOp" /\ expr.val.t = "int" -> IntV(0 - expr.val.n)
      [] OTHER -> UNKNOWN

\* repr(value)
Repr(v) ==
    CASE v.t = "int"  -> ToString(v.n)
      [] v.t = "str"  -> "'" \o v.s \o "'"
      [] v.t = "bool" -> IF v.n = 1 THEN "True" ELSE "False"
      [] OTHER        -> "None"

\* bool(value)
Truthy(v) ==
    CASE v.t \in {"int", "bool"} -> v.n # 0
      [] v.t = "str"             -> v.s # ""
      [] OTHER                   -> FALSE

\* sep.join(parts)
RECURSIVE Join(_, _)
Join(parts, sep) ==
    IF parts = <<>> THEN ""
    ELSE IF Len(parts) = 1 THEN parts[1]
    ELSE parts[1] \o sep \o Join(Tail(parts), sep)

\* the parameters of the called function, `def divide(a, b)`, in order
Params == <<"a", "b">>
ParamRank(name) == CHOOSE r \in 1..Len(Params) : Params[r] = name

\* sorted(kwargs.items()): the items in ascending order of their key
RECURSIVE SortedItems(_)
SortedItems(items) ==
    IF items = <<>> THEN <<>>
    ELSE LET m == CHOOSE i \in 1..Len(items) :
                    \A j \in 1..Len(items) : ParamRank(items[i].arg) <= ParamRank(items[j].arg)
         IN  <<items[m]>> \o SortedItems(SubSeq(items, 1, m - 1) \o SubSeq(items, m + 1, Len(items)))

\* format_call_args with the separator added whatever args and kwargs hold
FormatAlwaysSep(args, kwargs) ==
    Join([i \in 1..Len(args) |-> Repr(args[i])], ", ") \o ", "
    \o Join([i \in 1..Len(kwargs) |->
               SortedItems(kwargs)[i].arg \o "=" \o Repr(SortedItems(kwargs)[i].value)], ", ")

\* format_call_args(args, kwargs)
format_call_args(args, kwargs) ==
    LET sep == ", "
        args_s == Join([i \in 1..Len(args) |-> Repr(args[i])], sep)
        items == SortedItems(kwargs)
        kwargs_s == Join([i \in 1..Len(items) |->
                            items[i].arg \o "=" \o Repr(items[i].value)], sep)
    IN  IF args # <<>> /\ kwargs # <<>> THEN args_s \o sep \o kwargs_s
        ELSE args_s \o kwargs_s

\* the validator of a deal.pre decorator: a lambda, given by its source
Lambda(src) == [kind |-> "Lambda", name |-> src, args |-> <<>>]

Validators ==
    { "lambda a, b: b != 0",
      "lambda a, b: b != 0 or 'b is zero'",
      "lambda a, b: b != 0 or ''",
      "lambda a, b: b != LIMIT",
      "lambda a, b: b" }

\* _contract.py is not part of the sources: Contract.run is modelled from
\* section 4.4: the parameters are bound to the values of the call and the
\* validator is evaluated in that scope
BoundValue(name, args, kwargs) ==
    IF ParamRank(name) <= Len(args) THEN args[ParamRank(name)]
    ELSE LET k == CHOOSE k \in 1..Len(kwargs) : kwargs[k].arg = name
         IN  kwargs[k].value

\* Python's `b != 0`
NotEqualZero(v) == ~(v.t \in {"int", "bool"} /\ v.n = 0)

ContractRun(cinfo, args, kwargs) ==
    LET src == cinfo.args[1].name
        b == BoundValue("b", args, kwargs)
    IN  CASE src = "lambda a, b: b != 0" -> BoolV(NotEqualZero(b))
          [] src = "lambda a, b: b != 0 or 'b is zero'" ->
               IF NotEqualZero(b) THEN BoolV(TRUE) ELSE StrV("b is zero")
          [] src = "lambda a, b: b != 0 or ''" ->
               IF NotEqualZero(b) THEN BoolV(TRUE) ELSE StrV("")
          [] src = "lambda a, b: b != LIMIT" -> NameError
          [] OTHER -> b

NoMarker    == [none |-> TRUE, s |-> ""]
Marker(str) == [none |-> FALSE, s |-> str]

PreToken(value, marker, line, col) ==
    [value |-> value, marker |-> marker, line |-> line, col |-> col]

\* a verdict that takes every falsy result for a violation
ViolatedIfFalsy(result) == ~Truthy(result)

\* a verdict that takes every result but True for a violation
ViolatedUnlessTrue(result) == result # BoolV(TRUE)

\* `result is False or type(result) is str` (line 58)
Violated(result) == result = BoolV(FALSE) \/ result.t = "str"

\* `result or None` (line 61)
MarkerOf(result) == IF Truthy(result) THEN Marker(result.s) ELSE NoMarker

\* a definition infer(expr.func) may give
FunctionDef(decorators) == [type |-> "FunctionDef", decorators |-> decorators]
ClassDef == [type |-> "ClassDef", decorators |-> <<>>]

\* get_contracts(func) for a FunctionDef (contracts.py, lines 35-43)
get_contracts(func) ==
    IF func.decorators = <<>> THEN <<>> ELSE GetContracts(func.decorators)

\* skip the loops that have nothing left: the end of `for subnode in
\* expr.args`, of `for subnode in expr.keywords`, of `for cinfo in ...`
\* and of `for func in infer(expr.func)`
RECURSIVE Skip(_)
Skip(p) ==
    CASE p.stage = "args" /\ p.i > Len(call.args) ->
           Skip([p EXCEPT !.stage = "kwargs", !.i = 1])
      [] p.stage = "kwargs" /\ p.i > Len(call.keywords) ->
           Skip([p EXCEPT !.stage = "funcs", !.i = 1])
      [] p.stage = "contracts" /\ p.k > Len(p.contracts) ->
           Skip([p EXCEPT !.stage = "funcs", !.i = @ + 1, !.contracts = <<>>])
      [] p.stage = "funcs" /\ p.i > Len(inferred) ->
           [p EXCEPT !.stage = "done"]
      [] OTHER -> p

\* one iteration of `for subnode in expr.args` (lines 25-29)
EvalArg ==
    /\ pre.stage = "args"
    /\ LET value == get_value(call.args[pre.i])
       IN  pre' = IF value = UNKNOWN THEN [pre EXCEPT !.stage = "done"]
                  ELSE Skip([pre EXCEPT !.args = Append(@, value), !.i = @ + 1])
    /\ UNCHANGED <<call, inferred, ptokens, runs, excVars, stubVars, valVars, conVars>>

\* one iteration of `for subnode in (expr.keywords or ())` (lines 31-36)
EvalKeyword ==
    /\ pre.stage = "kwargs"
    /\ LET subnode == call.keywords[pre.i]
           value == get_value(subnode.value)
       IN  pre' = IF value = UNKNOWN THEN [pre EXCEPT !.stage = "done"]
                  ELSE Skip([pre EXCEPT !.kwargs = Append(@, Keyword(subnode.arg, value)),
                                        !.i = @ + 1])
    /\ UNCHANGED <<call, inferred, ptokens, runs, excVars, stubVars, valVars, conVars>>

\* one iteration of `for func in infer(expr.func)` up to the inner loop
\* (lines 38-44)
NextFunc ==
    /\ pre.stage = "funcs"
    /\ LET func == inferred[pre.i]
       IN  pre' = IF func.type # "FunctionDef" THEN Skip([pre EXCEPT !.i = @ + 1])
                  ELSE Skip([pre EXCEPT !.stage = "contracts", !.k = 1,
                                        !.contracts = get_contracts(func)])
    /\ UNCHANGED <<call, inferred, ptokens, runs, excVars, stubVars, valVars, conVars>>

\* one iteration of `for cinfo in get_contracts(func)` (lines 44-64)
RunContract ==
    /\ pre.stage = "contracts"
    /\ LET cinfo == pre.contracts[pre.k]
           result == ContractRun(cinfo, pre.args, pre.kwargs)
           yielded == IF cinfo.name = "pre" /\ result # NameError /\ Violated(result)
                      THEN <<PreToken(format_call_args(pre.args, pre.kwargs),
                                      MarkerOf(result), call.line, call.col)>>
                      ELSE <<>>
       IN  /\ ptokens' = ptokens \o yielded
           /\ runs' = IF cinfo.name = "pre"
                      THEN Append(runs, [result |-> result, before |-> Len(ptokens),
                                         after |-> Len(ptokens) + Len(yielded)])
                      ELSE runs
    /\ pre' = Skip([pre EXCEPT !.k = @ + 1])
    /\ UNCHANGED <<call, inferred, excVars, stubVars, valVars, conVars>>

NextPre == EvalArg \/ EvalKeyword \/ NextFunc \/ RunContract

(***************************************************************************)
(* Specification SpecPre: handle_call on every call of divide(a, b) with   *)
(* two arguments, positional or by keyword, where divide has at most       *)
(* MaxDecorators decorators.                                               *)
(***************************************************************************)
ArgExprs == {Lit(IntV(10)), Lit(IntV(0)), Neg(IntV(1)), Lit(StrV("k")), NameArg}

\* divide(x, y), divide(x, b=y), divide(b=y, a=x)
Calls ==
    {[args |-> <<x, y>>, keywords |-> <<>>, line |-> 7, col |-> 4] : x, y \in ArgExprs}
    \cup {[args |-> <<x>>, keywords |-> <<Keyword("b", y)>>, line |-> 7, col |-> 4] :
            x, y \in ArgExprs}
    \cup {[args |-> <<>>, keywords |-> <<Keyword("b", y), Keyword("a", x)>>,
           line |-> 7, col |-> 4] : x, y \in ArgExprs}

PreDecorators ==
    {DecoCall("deal.pre", <<Lambda(v)>>) : v \in Validators}
    \cup {DecoCall("deal.raises", <<ExprName("ZeroDivisionError")>>)}

InitPre ==
    /\ call \in Calls
    /\ \E n \in 0..MaxDecorators : \E ds \in [1..n -> PreDecorators] :
         inferred \in {<<>>, <<FunctionDef(ds)>>, <<ClassDef, FunctionDef(ds)>>,
                       <<FunctionDef(ds), FunctionDef(ds)>>}
    /\ pre = Skip([stage |-> "args", i |-> 1, k |-> 1, args |-> <<>>, kwargs |-> <<>>,
                   contracts |-> <<>>])
    /\ ptokens = <<>>
    /\ runs = <<>>
    /\ funcs = [f \in FuncNames |-> Func(<<>>, <<>>)]
    /\ tree = FlatTree
    /\ stubs = StubsEmpty
    /\ stack = <<>>
    /\ tokens = <<>>
    /\ ncalls = 0
    /\ StubIdle
    /\ ValIdle
    /\ ConIdle

SpecPre == InitPre /\ [][NextPre]_vars

(***************************************************************************)
(* Properties of the precondition check                                    *)
(***************************************************************************)
PreDone == pre.stage = "done"

\* the tokens yielded for the k-th contract.run
YieldedBy(k) == SubSeq(ptokens, runs[k].before + 1, runs[k].after)

\* the call's arguments are all literals
AllLiteral ==
    /\ \A i \in 1..Len(call.args) : get_value(call.args[i]) # UNKNOWN
    /\ \A i \in 1..Len(call.keywords) : get_value(call.keywords[i].value) # UNKNOWN

\* the number of PRE contracts of the function definitions inferred
PreContracts ==
    LET count(func) ==
            IF func.type # "FunctionDef" THEN 0
            ELSE Cardinality({k \in 1..Len(get_contracts(func)) :
                                 get_contracts(func)[k].name = "pre"})
        sum[i \in 0..Len(inferred)] ==
            IF i = 0 THEN 0 ELSE sum[i - 1] + count(inferred[i])
    IN  sum[Len(inferred)]

\* C5 (as amended): every validator outcome maps to one verdict: NameError
\* yields no token; False or any string, the empty one included, yields one
\* token, whose marker is the string when it is non-empty and absent
\* otherwise; any other result yields no token. Evaluation goes on to the
\* next contract in every case: a finished check of a literal call has run
\* every PRE contract of the inferred functions.
C5_Verdicts ==
    /\ \A k \in 1..Len(runs) :
         LET r == runs[k].result
         IN  CASE r = NameError -> YieldedBy(k) = <<>>
               [] r = BoolV(FALSE) ->
                    Len(YieldedBy(k)) = 1 /\ YieldedBy(k)[1].marker = NoMarker
               [] r.t = "str" /\ r.s # "" ->
                    Len(YieldedBy(k)) = 1 /\ YieldedBy(k)[1].marker = Marker(r.s)
               [] r.t = "str" /\ r.s = "" ->
                    Len(YieldedBy(k)) = 1 /\ YieldedBy(k)[1].marker = NoMarker
               [] OTHER -> YieldedBy(k) = <<>>
    /\ (PreDone /\ AllLiteral) => Len(runs) = PreContracts

\* C5 (as claimed): as above, but an empty string counts among the other
\* results and yields no token.
C5_EmptyStringYieldsNothing ==
    \A k \in 1..Len(runs) :
      LET r == runs[k].result
      IN  CASE r = NameError -> YieldedBy(k) = <<>>
            [] r = BoolV(FALSE) ->
                 Len(YieldedBy(k)) = 1 /\ YieldedBy(k)[1].marker = NoMarker
            [] r.t = "str" /\ r.s # "" ->
                 Len(YieldedBy(k)) = 1 /\ YieldedBy(k)[1].marker = Marker(r.s)
            [] OTHER -> YieldedBy(k) = <<>>

\* a finished check whose first validator raised NameError and yielded
\* nothing, and whose second returned the empty string and yielded one
\* token without a marker
C5_NameErrorThenEmptyString ==
    /\ PreDone
    /\ Len(runs) >= 2
    /\ runs[1].result = NameError
    /\ YieldedBy(1) = <<>>
    /\ runs[2].result = StrV("")
    /\ Len(YieldedBy(2)) = 1
    /\ YieldedBy(2)[1].marker = NoMarker

\* the argument list as written: the positional arguments in call order,
\* then the keyword arguments as name=value in the order `order`
RenderedArgs(order) ==
    Join([i \in 1..Len(call.args) |-> Repr(get_value(call.args[i]))]
         \o [i \in 1..Len(call.keywords) |->
               call.keywords[order[i]].arg \o "="
               \o Repr(get_value(call.keywords[order[i]].value))],
         ", ")

\* C6: every evaluation of an unsatisfied precondition over literal
\* arguments yields exactly one token, and the value of every token is the
\* rendering of the call's argument list: the positional arguments by their
\* repr in call order, then the keyword arguments as name=value, joined by
\* ", " with no leading or trailing separator.
C6_TokenRendersArguments ==
    /\ \A k \in 1..Len(runs) :
         (runs[k].result = BoolV(FALSE) \/ runs[k].result.t = "str") =>
           Len(YieldedBy(k)) = 1
    /\ \A k \in 1..Len(ptokens) :
         \E order \in Permutations(1..Len(call.keywords)) :
           ptokens[k].value = RenderedArgs(order)

\* divide(10, 0) against `lambda a, b: b != 0`: one token with value `10, 0`
C6_DivideTenByZero ==
    /\ PreDone
    /\ call.args = <<Lit(IntV(10)), Lit(IntV(0))>>
    /\ inferred = <<FunctionDef(<<DecoCall("deal.pre", <<Lambda("lambda a, b: b != 0")>>)>>)>>
    /\ Len(ptokens) = 1
    /\ ptokens[1].value = "10, 0"
    /\ ptokens[1].marker = NoMarker

(***************************************************************************)
(* Stub Store (_stub.py)                                                   *)
(*                                                                         *)
(* A path is [dir, stem, suffix], dir the sequence of directory names from *)
(* the root of the file system.  A Python dict is a function whose domain  *)
(* is the set of its keys; a list is a sequence.  The text of a stub file  *)
(* is the sequence of its JSON members <<key, members>> in written order.  *)
(***************************************************************************)
EXTENSION == ".json"

\* Category.value of the categories the model uses
RAISES == "raises"
HAS    == "has"
POST   == "post"

Path(dir, stem, suffix) == [dir |-> dir, stem |-> stem, suffix |-> suffix]

\* path.with_suffix(suffix)
with_suffix(path, suffix) == [path EXCEPT !.suffix = suffix]

\* path.exists()
Exists(path) == path \in DOMAIN disk /\ disk[path].exists

NoFile == [exists |-> FALSE, text |-> <<>>]
File(text) == [exists |-> TRUE, text |-> text]

\* the order of str: code points, so upper case before lower case
StrOrder == <<"C.a", "C.b", "KeyError", "TypeError", "ValueError", "ZeroDivisionError",
              "a", "b", "c", "has", "raises", "stdout">>
StrRank(str) == CHOOSE r \in 1..Len(StrOrder) : StrOrder[r] = str
StrLessEq(x, y) == StrRank(x) <= StrRank(y)

\* list.sort(): a stable sort into ascending order
RECURSIVE SortList(_)
SortList(values) ==
    IF values = <<>> THEN <<>>
    ELSE LET init == SortList(SubSeq(values, 1, Len(values) - 1))
             v == values[Len(values)]
             n == Cardinality({i \in 1..Len(init) : StrLessEq(init[i], v)})
         IN  SubSeq(init, 1, n) \o <<v>> \o SubSeq(init, n + 1, Len(init))

\* the keys of a dict in ascending order (sort_keys=True)
SortedKeys(d) ==
    LET ks == CHOOSE q \in [1..Cardinality(DOMAIN d) -> DOMAIN d] : Range(q) = DOMAIN d
    IN  SortList(ks)

EmptyDict == <<>>

\* d.setdefault(key, default) as the dict afterwards
SetDefault(d, key, default) == IF key \in DOMAIN d THEN d ELSE d @@ (key :> default)

\* d.get(key, default)
DictGet(d, key, default) == IF key \in DOMAIN d THEN d[key] ELSE default

\* json.dump(obj=content, sort_keys=True): the members in key order
JsonDump(content) ==
    LET fs == SortedKeys(content)
        inner(f) == LET cs == SortedKeys(content[f])
                    IN  [j \in 1..Len(cs) |-> <<cs[j], content[f][cs[j]]>>]
    IN  [i \in 1..Len(fs) |-> <<fs[i], inner(fs[i])>>]

\* json.load(stream): the dict a text denotes (a later member of the same
\* name wins)
JsonLoad(text) ==
    LET obj(members) ==
            [k \in {members[i][1] : i \in 1..Len(members)} |->
                LET i == CHOOSE i \in 1..Len(members) :
                           /\ members[i][1] = k
                           /\ \A j \in (i + 1)..Len(members) : members[j][1] # k
                IN  members[i][2]]
        top == obj(text)
    IN  [f \in DOMAIN top |-> obj(top[f])]

\* StubFile.__init__ (synced is history: whether the instance has seen all
\* that is in the file at its path)
StubFile(path) == [path |-> path, content |-> EmptyDict, synced |-> ~Exists(path)]

\* StubFile.add on the content, without the membership test
AddAlways(content, func, contract, value) ==
    LET c1 == SetDefault(content, func, EmptyDict)
        contracts == SetDefault(c1[func], contract, <<>>)
    IN  [c1 EXCEPT ![func] = [contracts EXCEPT ![contract] = SortList(Append(@, value))]]

\* StubFile.add on the content, without the sort
AddUnsorted(content, func, contract, value) ==
    LET c1 == SetDefault(content, func, EmptyDict)
        contracts == SetDefault(c1[func], contract, <<>>)
    IN  IF value \in Range(contracts[contract]) THEN [c1 EXCEPT ![func] = contracts]
        ELSE [c1 EXCEPT ![func] = [contracts EXCEPT ![contract] = Append(@, value)]]

\* StubFile.add for a supported category: the content afterwards
\* (lines 43-48)
AddContent(content, func, contract, value) ==
    LET c1 == SetDefault(content, func, EmptyDict)
        contracts == SetDefault(c1[func], contract, <<>>)
        values == contracts[contract]
    IN  IF value \in Range(values) THEN [c1 EXCEPT ![func] = contracts]
        ELSE [c1 EXCEPT ![func] = [contracts EXCEPT ![contract] =
                                      SortList(Append(values, value))]]

\* StubFile.get for a supported category (lines 53-54)
GetContent(content, func, contract) ==
    Range(DictGet(DictGet(content, func, EmptyDict), contract, <<>>))

\* the (function, category, value) triples of a content
Triples(content) ==
    UNION {UNION {{<<f, c, content[f][c][i]>> : i \in 1..Len(content[f][c])} :
                    c \in DOMAIN content[f]} : f \in DOMAIN content}

\* the triples in the file at a path
DiskTriples(path) == IF Exists(path) THEN Triples(JsonLoad(disk[path].text)) ELSE {}

\* StubFile.load for a file that exists (lines 31-32)
LoadContent(stub) ==
    [stub EXCEPT !.content = JsonLoad(disk[stub.path].text), !.synced = TRUE]

\* StubFile.dump that writes only a file that does not exist yet
DumpIfAbsent(stub) ==
    IF stub.content = EmptyDict \/ Exists(stub.path) THEN disk
    ELSE [disk EXCEPT ![stub.path] = File(JsonDump(stub.content))]

\* StubFile.dump that writes whatever the content is
DumpAlways(stub) == [disk EXCEPT ![stub.path] = File(JsonDump(stub.content))]

\* StubFile.dump: the file system afterwards (lines 35-38)
DumpFile(stub) ==
    IF stub.content = EmptyDict THEN disk
    ELSE [disk EXCEPT ![stub.path] = File(JsonDump(stub.content))]

\* the module names of the model by their parts
KnownParts == {<<"example">>, <<"work", "example">>}

\* name.split('.')
Split(name) ==
    IF \E parts \in KnownParts : Join(parts, ".") = name
    THEN CHOOSE parts \in KnownParts : Join(parts, ".") = name
    ELSE <<name>>

\* _get_module_name that looks at the marker of the file's directory only
ModuleNameOneLevel(path) ==
    IF path.dir \notin inits THEN path.stem
    ELSE Join(<<path.dir[Len(path.dir)], path.stem>>, ".")

\* StubsManager._get_module_name (lines 85-94): parent is the nearest
\* ancestor directory that holds no __init__.py
_get_module_name(path) ==
    IF path.dir \notin inits THEN path.stem
    ELSE LET n == CHOOSE n \in 0..Len(path.dir) :
                    /\ SubSeq(path.dir, 1, n) \notin inits
                    /\ \A k \in (n + 1)..Len(path.dir) : SubSeq(path.dir, 1, k) \in inits
         IN  Join(SubSeq(path.dir, n + 1, Len(path.dir)) \o <<path.stem>>, ".")

\* what a StubsManager method gives: the instances and the cache afterwards,
\* the instance returned (0 for None) and the exception raised, if any
Outcome(os, ms, id, raised) == [objs |-> os, modules |-> ms, id |-> id, raised |-> raised]

\* StubsManager.read (lines 71-82); module_name "" stands for None
ReadOutcome(os, ms, path, module_name) ==
    LET p1 == IF path.suffix = ".py" THEN with_suffix(path, EXTENSION) ELSE path
        name == IF module_name = "" THEN _get_module_name(p1) ELSE module_name
    IN  IF p1.suffix # EXTENSION THEN Outcome(os, ms, 0, "ValueError")
        ELSE IF name \in DOMAIN ms THEN Outcome(os, ms, ms[name], "")
        ELSE IF ~Exists(p1) THEN Outcome(os, ms, 0, "FileNotFoundError")
        ELSE Outcome(Append(os, LoadContent(StubFile(p1))),
                     ms @@ (name :> Len(os) + 1), Len(os) + 1, "")

\* the loop over the roots with the nested path looked at before the flat one
RECURSIVE ProbeNestedFirst(_, _, _, _)
ProbeNestedFirst(os, ms, roots, module_name) ==
    IF roots = <<>> THEN Outcome(os, ms, 0, "")
    ELSE LET root == Head(roots)
             parts == Split(module_name)
             flat == Path(root, module_name, EXTENSION)
             nested == Path(root \o SubSeq(parts, 1, Len(parts) - 1),
                            parts[Len(parts)], EXTENSION)
         IN  IF Exists(nested) THEN ReadOutcome(os, ms, nested, module_name)
             ELSE IF Exists(flat) THEN ReadOutcome(os, ms, flat, module_name)
             ELSE ProbeNestedFirst(os, ms, Tail(roots), module_name)

\* the loop over the roots of StubsManager.get (lines 102-109)
RECURSIVE Probe(_, _, _, _)
Probe(os, ms, roots, module_name) ==
    IF roots = <<>> THEN Outcome(os, ms, 0, "")
    ELSE LET root == Head(roots)
             parts == Split(module_name)
             flat == Path(root, module_name, EXTENSION)
             nested == Path(root \o SubSeq(parts, 1, Len(parts) - 1),
                            parts[Len(parts)], EXTENSION)
         IN  IF Exists(flat) THEN ReadOutcome(os, ms, flat, module_name)
             ELSE IF Exists(nested) THEN ReadOutcome(os, ms, nested, module_name)
             ELSE Probe(os, ms, Tail(roots), module_name)

\* StubsManager.get (lines 96-109)
GetOutcome(os, ms, module_name) ==
    IF module_name \in DOMAIN ms THEN Outcome(os, ms, ms[module_name], "")
    ELSE Probe(os, ms, manager.paths, module_name)

\* StubsManager.create that never loads the file
CreateStubEmpty(path) == [StubFile(path) EXCEPT !.synced = TRUE]

\* the new stub of StubsManager.create, loaded from disk if the file exists
\* (lines 122-124)
CreateStub(path) == IF Exists(path) THEN LoadContent(StubFile(path)) ELSE StubFile(path)

\* StubsManager.create that makes and caches a new stub whatever is cached
CreateFresh(os, ms, path) ==
    LET p1 == IF path.suffix = ".py" THEN with_suffix(path, EXTENSION) ELSE path
        module_name == _get_module_name(p1)
    IN  Outcome(Append(os, CreateStub(p1)),
                [n \in DOMAIN ms \cup {module_name} |->
                    IF n = module_name THEN Len(os) + 1 ELSE ms[n]],
                Len(os) + 1, "")

\* StubsManager.create (lines 111-126)
CreateOutcome(os, ms, path) ==
    LET p1 == IF path.suffix = ".py" THEN with_suffix(path, EXTENSION) ELSE path
        module_name == _get_module_name(p1)
        found == GetOutcome(os, ms, module_name)
    IN  IF found.id # 0 \/ found.raised # "" THEN found
        ELSE Outcome(Append(os, CreateStub(p1)),
                     ms @@ (module_name :> Len(os) + 1), Len(os) + 1, "")

(***************************************************************************)
(* generate_stub and the operations of the Stub Store as actions           *)
(***************************************************************************)
\* number of StubFile instances made in one behaviour
MaxStubFiles == 2

\* get_exceptions(body) as a function of the module: the tokens the
\* generator yields for the body of fn, in order (exceptions.py, 15-104)
RECURSIVE get_exceptions(_, _)
get_exceptions(fn, dive) ==
    LET body == traverse(funcs[fn].body)
        from_funcs(expr) ==
            LET gs == Guesses(expr)
            IN  Concat([g \in 1..Len(gs) |->
                    LET inner == get_exceptions(gs[g].fn, CalleeDive)
                        names == DeclaredRaises(gs[g].fn)
                    IN  [k \in 1..Len(inner) |->
                            Token(inner[k].value, gs[g].site.line, gs[g].site.col)]
                        \o [k \in 1..Len(names) |->
                              Token(StrOf(names[k]), gs[g].site.line, gs[g].site.col)]])
    IN  Concat([i \in 1..Len(body) |->
            Direct(body[i])
            \o (IF dive /\ ReachesDive(body[i]) THEN from_funcs(body[i]) ELSE <<>>)])

\* the generator run step by step has yielded, when it is exhausted, what
\* get_exceptions gives for the body of the entry function
GeneratorAgrees == Done => tokens = get_exceptions(Entry, TRUE)

\* markers.py is not part of the sources: get_markers is modelled from
\* section 4.5 as the same walk yielding the marker of a console-output call
get_markers(fn) ==
    LET body == traverse(funcs[fn].body)
    IN  SelectSeq([i \in 1..Len(body) |->
                      IF body[i].kind = "Call" /\ body[i].name = "print"
                      THEN "stdout" ELSE ""],
                  LAMBDA mk : mk # "")

\* a function found in the source: its qualified name and the name under
\* which funcs holds its body
PseudoFunc(name, body) == [name |-> name, body |-> body]

\* _get_funcs_from_expr that names a method as it names a function
RECURSIVE GetFuncsUnqualified(_, _)
GetFuncsUnqualified(expr, prefix) ==
    (IF expr.kind = "FunctionDef" THEN <<PseudoFunc(expr.name, expr.name)>> ELSE <<>>)
    \o (IF expr.kind = "ClassDef"
        THEN Concat([i \in 1..Len(expr.body) |-> GetFuncsUnqualified(expr.body[i], prefix)])
        ELSE <<>>)

\* _get_funcs_from_expr (lines 143-155)
RECURSIVE _get_funcs_from_expr(_, _)
_get_funcs_from_expr(expr, prefix) ==
    LET name == IF prefix # "" THEN prefix \o "." \o expr.name ELSE expr.name
    IN  (IF expr.kind = "FunctionDef" THEN <<PseudoFunc(name, expr.name)>> ELSE <<>>)
        \o (IF expr.kind = "ClassDef"
            THEN Concat([i \in 1..Len(expr.body) |-> _get_funcs_from_expr(expr.body[i], name)])
            ELSE <<>>)

\* _get_funcs: the functions of a parsed module in the order of the source
\* (lines 138-140)
_get_funcs(module) == Concat([i \in 1..Len(module) |-> _get_funcs_from_expr(module[i], "")])

\* stub.add for each value in turn
RECURSIVE AddEach(_, _, _, _)
AddEach(content, func, contract, values) ==
    IF values = <<>> THEN content
    ELSE AddEach(AddContent(content, func, contract, Head(values)), func, contract,
                 Tail(values))

\* the body of `for func in _get_funcs(path)` (lines 168-175)
AddFunc(content, func) ==
    LET toks == get_exceptions(func.body, TRUE)
        raised == [k \in 1..Len(toks) |-> toks[k].value.n]
    IN  AddEach(AddEach(content, func.name, RAISES, raised), func.name, HAS,
                get_markers(func.body))

\* the record of an operation: the instance it was made on or returned, the
\* exception it raised, and whether it changed a content or a file
Op(op, id, raised, changed) ==
    [op |-> op, id |-> id, raised |-> raised, changed |-> changed]

\* the instances after instance id wrote its path: the others on the same
\* path have not seen what the file holds now
AfterWrite(id) ==
    [j \in 1..Len(objs) |->
        IF j = id THEN [objs[j] EXCEPT !.synced = TRUE]
        ELSE IF objs[j].path = objs[id].path THEN [objs[j] EXCEPT !.synced = FALSE]
        ELSE objs[j]]

\* stub = StubFile(path)
NewStubFile(path) ==
    /\ gen.pc = "idle"
    /\ Len(objs) < MaxStubFiles
    /\ objs' = Append(objs, StubFile(path))
    /\ last' = Op("StubFile", Len(objs) + 1, "", TRUE)
    /\ UNCHANGED <<disk, inits, manager, gen, excVars, preVars, valVars, conVars>>

\* stub.load()
Load(id) ==
    /\ gen.pc = "idle"
    /\ IF Exists(objs[id].path)
       THEN /\ objs' = [objs EXCEPT ![id] = LoadContent(@)]
            /\ last' = Op("load", id, "", objs'[id].content # objs[id].content)
       ELSE /\ objs' = objs
            /\ last' = Op("load", id, "FileNotFoundError", FALSE)
    /\ UNCHANGED <<disk, inits, manager, gen, excVars, preVars, valVars, conVars>>

\* stub.dump()
Dump(id) ==
    /\ gen.pc = "idle"
    /\ disk' = DumpFile(objs[id])
    /\ objs' = IF objs[id].content = EmptyDict THEN objs ELSE AfterWrite(id)
    /\ last' = Op("dump", id, "", disk' # disk)
    /\ UNCHANGED <<inits, manager, gen, excVars, preVars, valVars, conVars>>

\* stub.add(func, contract, value) with the function key made before the
\* category is looked at
AddThenCheck(id, func, contract, value) ==
    /\ gen.pc = "idle"
    /\ IF contract \notin {RAISES, HAS}
       THEN /\ objs' = [objs EXCEPT ![id].content = SetDefault(@, func, EmptyDict)]
            /\ last' = Op("add", id, "ValueError", FALSE)
       ELSE /\ objs' = [objs EXCEPT ![id].content = AddContent(@, func, contract, value)]
            /\ last' = Op("add", id, "", objs' # objs)
    /\ UNCHANGED <<disk, inits, manager, gen, excVars, preVars, valVars, conVars>>

\* stub.add(func, contract, value)
Add(id, func, contract, value) ==
    /\ gen.pc = "idle"
    /\ IF contract \notin {RAISES, HAS}
       THEN /\ objs' = objs
            /\ last' = Op("add", id, "ValueError", FALSE)
       ELSE /\ objs' = [objs EXCEPT ![id].content = AddContent(@, func, contract, value)]
            /\ last' = Op("add", id, "", objs' # objs)
    /\ UNCHANGED <<disk, inits, manager, gen, excVars, preVars, valVars, conVars>>

\* stub.get(func, contract)
Get(id, func, contract) ==
    /\ gen.pc = "idle"
    /\ last' = IF contract \notin {RAISES, HAS} THEN Op("get", id, "ValueError", FALSE)
               ELSE Op("get", id, "", FALSE)
    /\ UNCHANGED <<disk, inits, objs, manager, gen, excVars, preVars, valVars, conVars>>


\* the outcome of a StubsManager method takes effect
Apply(op, out) ==
    /\ Len(out.objs) <= MaxStubFiles
    /\ objs' = out.objs
    /\ manager' = [manager EXCEPT !.modules = out.modules]
    /\ last' = Op(op, out.id, out.raised, out.objs # objs)

\* stubs = StubsManager(paths)
NewManager(paths) ==
    /\ gen.pc = "idle"
    /\ manager' = [paths |-> paths, modules |-> EmptyDict]
    /\ last' = Op("StubsManager", 0, "", TRUE)
    /\ UNCHANGED <<disk, inits, objs, gen, excVars, preVars, valVars, conVars>>

\* stubs.read(path=path)
Read(path) ==
    /\ gen.pc = "idle"
    /\ Apply("read", ReadOutcome(objs, manager.modules, path, ""))
    /\ UNCHANGED <<disk, inits, gen, excVars, preVars, valVars, conVars>>

\* stubs.get(module_name)
GetModule(module_name) ==
    /\ gen.pc = "idle"
    /\ Apply("get_module", GetOutcome(objs, manager.modules, module_name))
    /\ UNCHANGED <<disk, inits, gen, excVars, preVars, valVars, conVars>>

\* stubs.create(path)
Create(path) ==
    /\ gen.pc = "idle"
    /\ Apply("create", CreateOutcome(objs, manager.modules, path))
    /\ UNCHANGED <<disk, inits, gen, excVars, preVars, valVars, conVars>>

\* generate_stub(path, stubs) up to the loop (lines 161-166)
GenStart(path) ==
    /\ gen.pc = "idle"
    /\ IF path.suffix # ".py"
       THEN /\ last' = Op("generate_stub", 0, "ValueError", FALSE)
            /\ UNCHANGED <<objs, manager, gen>>
       ELSE LET out == CreateOutcome(objs, manager.modules, path)
            IN  /\ Len(out.objs) <= MaxStubFiles
                /\ objs' = out.objs
                /\ manager' = [manager EXCEPT !.modules = out.modules]
                /\ IF out.raised # ""
                   THEN /\ gen' = gen
                        /\ last' = Op("generate_stub", 0, out.raised, FALSE)
                   ELSE /\ gen' = [pc |-> "funcs", path |-> path, id |-> out.id, fi |-> 1]
                        /\ last' = Op("create", out.id, "", out.objs # objs)
    /\ UNCHANGED <<disk, inits, excVars, preVars, valVars, conVars>>

\* one iteration of `for func in _get_funcs(path=path)`; the first one
\* reads the source (lines 137, 167-175)
GenFunc ==
    /\ gen.pc = "funcs"
    /\ gen.fi <= Len(_get_funcs(tree)) \/ ~Exists(gen.path)
    /\ IF ~Exists(gen.path)
       THEN /\ gen' = GenIdle
            /\ objs' = objs
            /\ last' = Op("generate_stub", gen.id, "FileNotFoundError", FALSE)
       ELSE /\ gen' = [gen EXCEPT !.fi = @ + 1]
            /\ objs' = [objs EXCEPT ![gen.id].content = AddFunc(@, _get_funcs(tree)[gen.fi])]
            /\ last' = Op("add", gen.id, "", objs' # objs)
    /\ UNCHANGED <<disk, inits, manager, excVars, preVars, valVars, conVars>>

\* stub.dump() and return stub.path (lines 176-177)
GenDump ==
    /\ gen.pc = "funcs"
    /\ Exists(gen.path)
    /\ gen.fi > Len(_get_funcs(tree))
    /\ disk' = DumpFile(objs[gen.id])
    /\ objs' = IF objs[gen.id].content = EmptyDict THEN objs ELSE AfterWrite(gen.id)
    /\ gen' = GenIdle
    /\ last' = Op("generate_stub", gen.id, "", disk' # disk)
    /\ UNCHANGED <<inits, manager, excVars, preVars, valVars, conVars>>

(***************************************************************************)
(* Specification SpecStubFile: StubFile instances on one path, example.json*)
(* in /work, which an earlier run has or has not written.  At most         *)
(* MaxStubFiles instances are made and used in any order.                  *)
(***************************************************************************)
WorkDir  == <<"work">>
StubRoot == <<"stubs">>
SourcePy == Path(WorkDir, "example", ".py")
StubJson == Path(WorkDir, "example", EXTENSION)
TextFile == Path(WorkDir, "example", ".txt")
RootJson == Path(StubRoot, "example", EXTENSION)

\* what add and get are called with: the function, and the category with a
\* value of its kind
AddFuncs == {"a"}
AddCats  == {RAISES, HAS, POST}
AddArgs  == {<<RAISES, "ZeroDivisionError">>, <<RAISES, "KeyError">>, <<HAS, "stdout">>,
             <<POST, "KeyError">>}

\* what an earlier run left in example.json
OldContent == [a |-> [raises |-> <<"KeyError">>]]

\* `def a(): 1 / 0` and `def a(): return 1`, each followed by two functions
\* that only return
ModuleDivide ==
    [f \in FuncNames |-> IF f = "a" THEN Func(<<BinOp("/", ZeroInt)>>, <<>>)
                         ELSE Func(<<Node("Pass", "", "", NoRight, <<>>)>>, <<>>)]
ModuleReturn ==
    [f \in FuncNames |-> Func(<<Node("Pass", "", "", NoRight, <<>>)>>, <<>>)]

ExcIdle ==
    /\ tree = FlatTree
    /\ stubs = StubsEmpty
    /\ stack = <<>>
    /\ tokens = <<>>
    /\ ncalls = 0

InitStubFile ==
    /\ funcs = ModuleReturn
    /\ \E old \in {NoFile, File(JsonDump(OldContent))} : disk = (StubJson :> old)
    /\ inits = {}
    /\ objs = <<>>
    /\ manager = [paths |-> <<>>, modules |-> EmptyDict]
    /\ gen = GenIdle
    /\ last = NoOp
    /\ ExcIdle
    /\ PreIdle
    /\ ValIdle
    /\ ConIdle

NextStubFile ==
    \/ NewStubFile(StubJson)
    \/ \E id \in 1..Len(objs) : Load(id)
    \/ \E id \in 1..Len(objs) : Dump(id)
    \/ \E id \in 1..Len(objs) : \E func \in AddFuncs, arg \in AddArgs :
                                   Add(id, func, arg[1], arg[2])
    \/ \E id \in 1..Len(objs) : \E func \in AddFuncs, contract \in AddCats :
                                   Get(id, func, contract)

SpecStubFile == InitStubFile /\ [][NextStubFile]_vars

(***************************************************************************)
(* Properties of StubFile                                                  *)
(***************************************************************************)
\* the triples a caller may add: those of the specification and others
AnyFuncs  == {"a", "b"}
AnyValues == {"KeyError", "TypeError", "ZeroDivisionError", "stdout"}

\* C7: StubFile.add is idempotent: from every reachable StubFile state, for
\* every function name, category in {RAISES, HAS} and value, calling add
\* twice with the same triple leaves exactly the content that calling it
\* once leaves.
C7_AddIdempotent ==
    \A id \in 1..Len(objs) : \A func \in AnyFuncs, contract \in {RAISES, HAS},
                                value \in AnyValues :
      LET once == AddContent(objs[id].content, func, contract, value)
      IN  AddContent(once, func, contract, value) = once

\* an add of a triple the instance already held has just returned and left
\* the content, which holds two values in one list, as it was
C7_AddedAgain ==
    /\ last.op = "add"
    /\ last.raised = ""
    /\ ~last.changed
    /\ \E f \in DOMAIN objs[last.id].content :
         \E c \in DOMAIN objs[last.id].content[f] :
           Len(objs[last.id].content[f][c]) = 2

\* C8: in every state reachable by load, add and dump, each (function,
\* category) list of every StubFile is in ascending order with no value
\* repeated.
C8_SortedNoDuplicates ==
    \A id \in 1..Len(objs) : \A f \in DOMAIN objs[id].content :
      \A c \in DOMAIN objs[id].content[f] :
        LET values == objs[id].content[f][c]
        IN  \A i, j \in 1..Len(values) : i < j => StrRank(values[i]) < StrRank(values[j])

\* an instance that loaded what another one dumped has just been added to,
\* and holds the two exception names in order beside a marker
C8_LoadedThenAdded ==
    /\ last.op = "add"
    /\ last.changed
    /\ last.id = 2
    /\ Exists(objs[2].path)
    /\ objs[2].content = [a |-> [raises |-> <<"KeyError", "ZeroDivisionError">>,
                                 has |-> <<"stdout">>]]

\* C10: after a dump of a StubFile whose content was built by add (so is
\* not empty), a fresh StubFile on the same path that is loaded holds
\* exactly the content that was dumped.
C10_RoundTrip ==
    (last.op = "dump" /\ objs[last.id].content # EmptyDict) =>
        /\ Exists(objs[last.id].path)
        /\ LoadContent(StubFile(objs[last.id].path)).content = objs[last.id].content

\* a second instance has just loaded the file the first one dumped and holds
\* the same three triples
C10_FreshLoadEqual ==
    /\ Len(objs) = 2
    /\ last = Op("load", 2, "", TRUE)
    /\ objs[1].path = objs[2].path
    /\ objs[2].content = objs[1].content
    /\ Cardinality(Triples(objs[1].content)) = 3

(***************************************************************************)
(* Specification SpecStub: the project directory /work with example.py,    *)
(* present or not, and the stub example.json an earlier run has or has not *)
(* left; /stubs is the one stub root and holds a stub of the module or     *)
(* not, and when it does not /work is or is not a package.  Stubs are made *)
(* directly or through the StubsManager, at most MaxStubFiles in all, and  *)
(* generate_stub is run.                                                   *)
(***************************************************************************)
\* what the stub root holds for the module `example`, when it holds it
RootContent == [a |-> [has |-> <<"stdout">>]]

\* the module in example.py; when the file is missing it is never read
InitStub ==
    /\ \E src \in {NoFile, File(<<>>)}, old \in {NoFile, File(JsonDump(OldContent))},
          root \in {NoFile, File(JsonDump(RootContent))} :
         /\ disk = (SourcePy :> src) @@ (StubJson :> old) @@ (RootJson :> root)
         /\ funcs \in IF src.exists THEN {ModuleDivide, ModuleReturn} ELSE {ModuleReturn}
    /\ inits \in IF Exists(RootJson) THEN {{}} ELSE {{}, {WorkDir}}
    /\ objs = <<>>
    /\ manager = [paths |-> <<StubRoot>>, modules |-> EmptyDict]
    /\ gen = GenIdle
    /\ last = NoOp
    /\ ExcIdle
    /\ PreIdle
    /\ ValIdle
    /\ ConIdle

\* what add is called with on a stub of the project
ProjectArgs == {<<RAISES, "KeyError">>, <<POST, "KeyError">>}

NextStub ==
    \/ NewStubFile(StubJson)
    \/ \E id \in 1..Len(objs) : Load(id)
    \/ \E id \in 1..Len(objs) : Dump(id)
    \/ \E id \in 1..Len(objs) : \E func \in AddFuncs, arg \in ProjectArgs :
                                   Add(id, func, arg[1], arg[2])
    \/ NewManager(<<StubRoot>>)
    \/ \E path \in {SourcePy, StubJson, TextFile} : Read(path)
    \/ \E module_name \in {"example", "work.example"} : GetModule(module_name)
    \/ \E path \in {SourcePy, StubJson} : Create(path)
    \/ \E path \in {SourcePy, StubJson} : GenStart(path)
    \/ GenFunc
    \/ GenDump

SpecStub == InitStub /\ [][NextStub]_vars

(***************************************************************************)
(* Properties of the files of the Stub Store                               *)
(***************************************************************************)
\* the triples in the file at a path of a file system
TriplesIn(fs, path) == IF fs[path].exists THEN Triples(JsonLoad(fs[path].text)) ELSE {}

\* C9 (as claimed): the on-disk representation of a stub only grows: after
\* any sequence of load, add, dump, create and generate_stub, every triple
\* that was in the file is still in it after each later dump.
C9_DiskOnlyGrows ==
    [][\A path \in DOMAIN disk : TriplesIn(disk, path) \subseteq TriplesIn(disk', path)]_vars

\* C9 (as amended): a file changes only by the dump of a StubFile on its
\* path, and when that StubFile has seen all the file holds (it was loaded,
\* by load, read or create, or was made when there was no file, or was the
\* last to write the path, and no other instance has written the path
\* since) every triple that was in the file is still in it after the dump.
C9_SyncedDumpOnlyGrows ==
    [][\A path \in DOMAIN disk :
         disk'[path] # disk[path] =>
           /\ last'.op \in {"dump", "generate_stub"}
           /\ last'.raised = ""
           /\ objs[last'.id].path = path
           /\ objs[last'.id].synced =>
                TriplesIn(disk, path) \subseteq TriplesIn(disk', path)]_vars

\* generate_stub has just written example.json through the one StubFile
\* there is: the file holds what the earlier run left and what was generated
C9_GeneratedOntoOldStub ==
    /\ last = Op("generate_stub", 1, "", TRUE)
    /\ Len(objs) = 1
    /\ objs[1].synced
    /\ DiskTriples(StubJson) = {<<"a", RAISES, "KeyError">>,
                                <<"a", RAISES, "ZeroDivisionError">>}

\* a StubFile that has seen all the file at its path holds has every triple
\* of the file in its content
SyncedSeesFile ==
    \A id \in 1..Len(objs) :
      objs[id].synced => DiskTriples(objs[id].path) \subseteq Triples(objs[id].content)

(***************************************************************************)
(* Properties of dump, add and get                                         *)
(***************************************************************************)
\* the function yields no exception token and no marker token
YieldsNothing(fn) == get_exceptions(fn, TRUE) = <<>> /\ get_markers(fn) = <<>>

\* C11: a dump of a StubFile with no content, by dump or at the end of
\* generate_stub, leaves every file as it was: none is created and none is
\* changed; and generate_stub adds nothing for a function that yields no
\* token, so a StubFile that was empty before the functions of such a source
\* were gone through writes no file.
C11_EmptyDumpWritesNothing ==
    [][/\ (last'.op \in {"dump", "generate_stub"} /\ last'.raised = ""
           /\ objs[last'.id].content = EmptyDict) => disk' = disk
       /\ (gen.pc = "funcs" /\ gen'.pc = "funcs" /\ YieldsNothing(_get_funcs(tree)[gen.fi].body))
            => objs' = objs]_vars

\* generate_stub has run to its end on `def a(): return 1` where there was no
\* stub: the StubFile it made is empty and there is no stub file
C11_NothingGenerated ==
    /\ last = Op("generate_stub", 1, "", FALSE)
    /\ funcs = ModuleReturn
    /\ Exists(SourcePy)
    /\ objs[1].content = EmptyDict
    /\ objs[1].path = StubJson
    /\ ~Exists(StubJson)
    /\ ~Exists(RootJson)

\* the categories a stub does not hold
Unsupported == AddCats \ {RAISES, HAS}

\* C12: add and get with a category other than RAISES and HAS raise
\* ValueError, and a call of add or get that raises leaves every StubFile,
\* the one it was called on included, with the content it had: no function
\* key and no category key is made.
C12_UnsupportedCategoryChangesNothing ==
    [][/\ \A id \in DOMAIN objs : \A func \in AddFuncs : \A contract \in Unsupported :
            /\ (\E value \in AnyValues : Add(id, func, contract, value))
                 => (last'.raised = "ValueError" /\ objs' = objs)
            /\ Get(id, func, contract)
                 => (last'.raised = "ValueError" /\ objs' = objs)
       /\ (last'.op \in {"add", "get"} /\ last'.raised # "") => objs' = objs]_vars

\* add with an unsupported category has raised on a StubFile that has no key
\* for the function
C12_AddRaisedOnEmpty ==
    \E id \in DOMAIN objs :
        /\ last = Op("add", id, "ValueError", FALSE)
        /\ \A func \in AddFuncs : func \notin DOMAIN objs[id].content

(***************************************************************************)
(* Specification SpecRoots: one StubsManager at a time over two roots,     *)
(* /stubs and /stubs/cpython, each of which holds or does not hold the stub*)
(* of the module work.example as a flat file (work.example.json) and as a  *)
(* nested one (work/example.json); /work is a package and holds or does    *)
(* not hold example.json.  No file is written.                             *)
(***************************************************************************)
CPythonRoot == StubRoot \o <<"cpython">>

\* root / (module_name + EXTENSION)
FlatPath(root, module_name) == Path(root, module_name, EXTENSION)

\* root.joinpath(*module_name.split('.')).with_suffix(EXTENSION)
NestedPath(root, module_name) ==
    LET parts == Split(module_name)
    IN  Path(root \o SubSeq(parts, 1, Len(parts) - 1), parts[Len(parts)], EXTENSION)

ModuleNames == {"example", "work.example"}
RootFiles ==
    {FlatPath(root, "work.example") : root \in {StubRoot, CPythonRoot}}
      \cup {NestedPath(root, "work.example") : root \in {StubRoot, CPythonRoot}}
RootOrders == {<<StubRoot, CPythonRoot>>, <<CPythonRoot, StubRoot>>}
ManagerPaths == RootFiles \cup {SourcePy, StubJson, TextFile}

\* what a root holds in a flat file and in a nested one
FlatContent == [a |-> [has |-> <<"stdout">>]]
NestedContent == [a |-> [raises |-> <<"ZeroDivisionError">>]]

InitRoots ==
    /\ funcs = ModuleReturn
    /\ \E present \in SUBSET RootFiles, old \in {NoFile, File(JsonDump(OldContent))} :
         disk = [path \in ManagerPaths |->
                   IF path = StubJson THEN old
                   ELSE IF path = SourcePy THEN File(<<>>)
                   ELSE IF path \notin present THEN NoFile
                   ELSE IF path.stem = "example" THEN File(JsonDump(NestedContent))
                   ELSE File(JsonDump(FlatContent))]
    /\ inits = {WorkDir}
    /\ objs = <<>>
    /\ \E paths \in RootOrders : manager = [paths |-> paths, modules |-> EmptyDict]
    /\ gen = GenIdle
    /\ last = NoOp
    /\ ExcIdle
    /\ PreIdle
    /\ ValIdle
    /\ ConIdle

NextRoots ==
    \/ \E paths \in RootOrders : NewManager(paths)
    \/ \E path \in ManagerPaths : Read(path)
    \/ \E module_name \in ModuleNames : GetModule(module_name)
    \/ \E path \in {SourcePy, StubJson, TextFile} : Create(path)
    \/ \E path \in {StubJson, TextFile} : GenStart(path)

SpecRoots == InitRoots /\ [][NextRoots]_vars

(***************************************************************************)
(* Properties of StubsManager                                              *)
(***************************************************************************)
\* the paths StubsManager.get looks at for a module, in the order it looks
ProbeOrder(module_name) ==
    [i \in 1..(2 * Len(manager.paths)) |->
        IF i % 2 = 1 THEN FlatPath(manager.paths[(i + 1) \div 2], module_name)
        ELSE NestedPath(manager.paths[i \div 2], module_name)]

\* C13: get(module_name) returns the cached StubFile when there is one and
\* changes nothing; otherwise it goes through the roots in their order, in
\* each root the flat file name before the nested path, and the first file
\* that exists is loaded into a new StubFile, cached under the name and
\* returned; when no root holds the module it returns None, raises nothing
\* and leaves the cache and the instances as they were.
C13_GetProbesRootsInOrder ==
    [][\A module_name \in ModuleNames : GetModule(module_name) =>
         LET order == ProbeOrder(module_name)
             found == {i \in 1..Len(order) : Exists(order[i])}
         IN  /\ last'.raised = ""
             /\ IF module_name \in DOMAIN manager.modules
                THEN /\ last'.id = manager.modules[module_name]
                     /\ manager' = manager
                     /\ objs' = objs
                ELSE IF found = {}
                THEN /\ last'.id = 0
                     /\ manager' = manager
                     /\ objs' = objs
                ELSE LET first == CHOOSE i \in found : \A j \in found : i <= j
                     IN  /\ last'.id = Len(objs) + 1
                         /\ objs' = Append(objs, [path |-> order[first],
                                                   content |-> JsonLoad(disk[order[first]].text),
                                                   synced |-> TRUE])
                         /\ manager'.modules = manager.modules @@ (module_name :> Len(objs) + 1)
                         /\ manager'.paths = manager.paths]_vars

\* get has loaded the flat file of the first root while the nested file of
\* that root and a file of the second root exist too
C13_FlatOfFirstRootLoaded ==
    /\ last.op = "get_module"
    /\ last.id # 0
    /\ last.changed
    /\ objs[last.id].path = FlatPath(manager.paths[1], "work.example")
    /\ Exists(NestedPath(manager.paths[1], "work.example"))
    /\ Exists(FlatPath(manager.paths[2], "work.example"))
    /\ manager.modules["work.example"] = last.id

\* the module name StubsManager.create derives from a path (lines 112-114)
CreateName(path) ==
    _get_module_name(IF path.suffix = ".py" THEN with_suffix(path, EXTENSION) ELSE path)

\* C14: the cache of a StubsManager only grows and holds one StubFile per
\* module name: a read, get or create leaves every cached name cached, on
\* the same instance, which stays on its path; and a get or a create that
\* comes to a cached name returns that very instance and makes no other.
\* (StubsManager(...) makes another manager, whose cache is its own.)
C14_CacheAppendOnly ==
    [][/\ last'.op # "StubsManager" =>
            /\ manager'.paths = manager.paths
            /\ \A name \in DOMAIN manager.modules :
                 /\ name \in DOMAIN manager'.modules
                 /\ manager'.modules[name] = manager.modules[name]
                 /\ objs'[manager.modules[name]].path = objs[manager.modules[name]].path
       /\ \A name \in DOMAIN manager.modules :
            /\ GetModule(name) => (last' = Op("get_module", manager.modules[name], "", FALSE))
            /\ \A path \in ManagerPaths :
                 (Create(path) /\ CreateName(path) = name)
                    => (last' = Op("create", manager.modules[name], "", FALSE))]_vars

\* create has returned a cached instance of a cache that holds two names
C14_CreateReturnedCached ==
    /\ last.op = "create"
    /\ last.id # 0
    /\ ~last.changed
    /\ Cardinality(DOMAIN manager.modules) = 2
    /\ \E name \in DOMAIN manager.modules : manager.modules[name] = last.id

\* the stub path StubsManager.create works with (lines 112-113)
CreateTarget(path) == IF path.suffix = ".py" THEN with_suffix(path, EXTENSION) ELSE path

\* what json.load gives for the file at a path
FileContent(path) == JsonLoad(disk[path].text)

PkgDir == WorkDir \o <<"pkg">>
PackageDirs == {WorkDir, PkgDir}
NamePaths == {Path(dir, stem, ".py") : dir \in PackageDirs, stem \in {"example", "__init__"}}

InitNames ==
    /\ funcs = ModuleReturn
    /\ disk = [path \in {with_suffix(path, EXTENSION) : path \in NamePaths} |-> NoFile]
    /\ inits \in SUBSET PackageDirs
    /\ objs = <<>>
    /\ manager = [paths |-> <<>>, modules |-> EmptyDict]
    /\ gen = GenIdle
    /\ last = NoOp
    /\ ExcIdle
    /\ PreIdle
    /\ ValIdle
    /\ ConIdle

\* (directory / '__init__.py').touch()
Touch(dir) ==
    /\ dir \notin inits
    /\ inits' = inits \cup {dir}
    /\ last' = Op("touch", 0, "", TRUE)
    /\ UNCHANGED <<disk, objs, manager, gen, excVars, preVars, valVars, conVars>>

NextNames ==
    \/ \E dir \in PackageDirs : Touch(dir)
    \/ NewManager(<<>>)
    \/ \E path \in NamePaths : Create(path)

SpecNames == InitNames /\ [][NextNames]_vars

\* the dotted path of a file relative to the nearest ancestor of a directory
\* that lacks a package marker, going up one directory at a time
RECURSIVE RelativeName(_, _)
RelativeName(dir, name) ==
    IF dir \notin inits THEN name
    ELSE RelativeName(SubSeq(dir, 1, Len(dir) - 1), dir[Len(dir)] \o "." \o name)

\* C16: _get_module_name gives the path of the file, dotted and without the
\* suffix, relative to the nearest ancestor directory that holds no package
\* marker: the stem alone when the file's own directory has no marker,
\* <directory>.<stem> when that directory has one and its parent has none,
\* and <package>.__init__ for the __init__ file of such a package; and a
\* stub that create has just made is cached under the name so derived.
C16_NameRelativeToNearestUnmarked ==
    /\ \A path \in NamePaths :
         LET name == _get_module_name(path)
             dir == path.dir
             up == SubSeq(dir, 1, Len(dir) - 1)
         IN  /\ name = RelativeName(dir, path.stem)
             /\ name = _get_module_name(with_suffix(path, EXTENSION))
             /\ dir \notin inits => name = path.stem
             /\ (dir \in inits /\ up \notin inits) => name = dir[Len(dir)] \o "." \o path.stem
             /\ (dir = WorkDir /\ dir \in inits /\ path.stem = "__init__")
                  => name = "work.__init__"
             /\ (inits = PackageDirs /\ dir = PkgDir /\ path.stem = "example")
                  => name = "work.pkg.example"
    /\ (last.op = "create" /\ last.changed) =>
         \E path \in NamePaths :
             /\ objs[last.id].path = with_suffix(path, EXTENSION)
             /\ _get_module_name(path) \in DOMAIN manager.modules
             /\ manager.modules[_get_module_name(path)] = last.id

\* example.py was created as `example`, then /work was made a package and
\* the same file was created as `work.example`
C16_SameFileTwoNames ==
    /\ last = Op("create", 2, "", TRUE)
    /\ DOMAIN manager.modules = {"example", "work.example"}
    /\ manager.modules["example"] = 1
    /\ manager.modules["work.example"] = 2
    /\ objs[1].path = objs[2].path
    /\ inits = {WorkDir}

(***************************************************************************)
(* Properties of the path extension                                        *)
(***************************************************************************)
\* the call raised ValueError and left the cache, the instances and the
\* files as they were
RaisedAtOnce ==
    /\ last'.raised = "ValueError"
    /\ manager' = manager
    /\ objs' = objs
    /\ disk' = disk

\* C17: read and create with a path whose extension is neither `.json` nor
\* `.py`, and generate_stub with a path whose extension is not `.py`, raise
\* ValueError before a cache entry is added and before a file is read or
\* written.
C17_InvalidExtensionRaises ==
    [][/\ Read(TextFile) => RaisedAtOnce
       /\ Create(TextFile) => RaisedAtOnce
       /\ \A path \in {StubJson, TextFile} : GenStart(path) => RaisedAtOnce]_vars

(***************************************************************************)
(* Specification SpecGenerate: generate_stub on /work/example.py, a module *)
(* of the functions a, b and c, where no stub of the module exists, neither*)
(* beside the source nor in the root.  The functions are top-level or      *)
(* methods of a class C; each body is one of a few that raise, divide by   *)
(* zero, print, or do none of these, and in the module of top-level        *)
(* functions a may call b.                                                 *)
(***************************************************************************)
PassStmt == Node("Pass", "", "", NoRight, <<>>)
PrintCall == CallName("print", <<>>)

\* the bodies a function of the module may have
GenBodies ==
    {<<PassStmt>>, <<BinOp("/", ZeroInt)>>, <<RaiseName("KeyError")>>, <<PrintCall>>,
     <<BinOp("/", ZeroInt), PrintCall>>}

\* `class C:` with one method, and with two methods among other statements
MethodTree == <<FuncDefExpr("a"), ClassDefExpr("C", <<FuncDefExpr("b")>>), FuncDefExpr("c")>>
ClassTree ==
    <<OtherExpr, ClassDefExpr("C", <<FuncDefExpr("a"), OtherExpr, FuncDefExpr("b")>>)>>

InitGenerate ==
    /\ \E ba \in GenBodies \cup {<<CallName("b", <<>>)>>}, bb \in GenBodies,
          bc \in {<<PassStmt>>, <<RaiseName("KeyError")>>} :
         /\ funcs = [f \in FuncNames |->
                       CASE f = "a" -> Func(ba, <<>>)
                         [] f = "b" -> Func(bb, <<>>)
                         [] OTHER   -> Func(bc, <<>>)]
         /\ tree \in IF ba \in GenBodies THEN {FlatTree, MethodTree, ClassTree}
                     ELSE {FlatTree}
    /\ stubs = StubsEmpty
    /\ stack = <<>>
    /\ tokens = <<>>
    /\ ncalls = 0
    /\ disk = (SourcePy :> File(<<>>)) @@ (StubJson :> NoFile) @@ (RootJson :> NoFile)
    /\ inits = {WorkDir}
    /\ objs = <<>>
    /\ manager = [paths |-> <<StubRoot>>, modules |-> EmptyDict]
    /\ gen = GenIdle
    /\ last = NoOp
    /\ PreIdle
    /\ ValIdle
    /\ ConIdle

NextGenerate ==
    \/ GenStart(SourcePy)
    \/ GenFunc
    \/ GenDump

SpecGenerate == InitGenerate /\ [][NextGenerate]_vars

(***************************************************************************)
(* Properties of generate_stub                                             *)
(***************************************************************************)
\* the functions of the module by position: <<qualified name, name>> for the
\* functions at the top level and for those in the body of a top-level class
Definitions ==
    {<<tree[i].name, tree[i].name>> : i \in {i \in 1..Len(tree) : tree[i].kind = "FunctionDef"}}
    \cup UNION {{<<tree[i].name \o "." \o tree[i].body[j].name, tree[i].body[j].name>> :
                    j \in {j \in 1..Len(tree[i].body) : tree[i].body[j].kind = "FunctionDef"}} :
                  i \in {i \in 1..Len(tree) : tree[i].kind = "ClassDef"}}

\* the names of the exceptions get_exceptions yields for a function, and the
\* markers get_markers yields for it
RaisesOf(fn) == {get_exceptions(fn, TRUE)[k].value.n : k \in 1..Len(get_exceptions(fn, TRUE))}
HasOf(fn) == Range(get_markers(fn))

\* a content records exactly the tokens of the functions of the module
ExactlyInferred(content) ==
    /\ DOMAIN content = {d[1] : d \in {d \in Definitions : RaisesOf(d[2]) \cup HasOf(d[2]) # {}}}
    /\ \A d \in Definitions : d[1] \in DOMAIN content =>
         /\ DOMAIN content[d[1]] = {c \in {RAISES} : RaisesOf(d[2]) # {}}
                                     \cup {c \in {HAS} : HasOf(d[2]) # {}}
         /\ RaisesOf(d[2]) # {} => Range(content[d[1]][RAISES]) = RaisesOf(d[2])
         /\ HasOf(d[2]) # {} => Range(content[d[1]][HAS]) = HasOf(d[2])

\* C18: when generate_stub has returned for a source that had no stub, the
\* content of the StubFile, and the stub file if one was written, hold for
\* each function that yields a token - a method under Type.method - exactly
\* the exception names of get_exceptions under `raises` and the markers of
\* get_markers under `has`, and nothing else; a file is written exactly when
\* some function yields a token; `def a(): 1/0` alone gives
\* {"a": {"raises": ["ZeroDivisionError"]}}.
C18_StubRecordsInferredEffects ==
    (last.op = "generate_stub" /\ last.raised = "") =>
        LET content == objs[last.id].content
        IN  /\ ExactlyInferred(content)
            /\ Exists(StubJson) <=> content # EmptyDict
            /\ Exists(StubJson) => FileContent(StubJson) = content
            /\ (funcs = ModuleDivide /\ tree = FlatTree)
                 => content = [a |-> [raises |-> <<"ZeroDivisionError">>]]

\* generate_stub has written the stub of a module whose function a divides
\* by zero and whose method C.b divides by zero and prints
C18_MethodRecorded ==
    /\ last = Op("generate_stub", 1, "", TRUE)
    /\ tree = MethodTree
    /\ funcs["a"] = Func(<<BinOp("/", ZeroInt)>>, <<>>)
    /\ FileContent(StubJson) =
         [a |-> [raises |-> <<"ZeroDivisionError">>]]
           @@ ("C.b" :> [has |-> <<"stdout">>, raises |-> <<"ZeroDivisionError">>])

\* the path of the StubFile that create(path) gives: that of the cached stub
\* of the module, else of the first stub of the module in a root, else the
\* path beside the source
ResolvedPath(path) ==
    LET name == CreateName(path)
        order == ProbeOrder(name)
        found == {i \in 1..Len(order) : Exists(order[i])}
    IN  IF name \in DOMAIN manager.modules THEN objs[manager.modules[name]].path
        ELSE IF found # {} THEN order[CHOOSE i \in found : \A j \in found : i <= j]
        ELSE CreateTarget(path)

\* C19 (as claimed): generate_stub returns, and writes only to, the path
\* with the parent directory and the stem of the source file and the stub
\* extension.
C19_StubBesideSource ==
    [][(last'.op = "generate_stub" /\ last'.raised = "") =>
         /\ objs[last'.id].path = with_suffix(SourcePy, EXTENSION)
         /\ \A path \in DOMAIN disk \ {with_suffix(SourcePy, EXTENSION)} :
              disk'[path] = disk[path]]_vars

\* C19 (as amended): generate_stub works on the StubFile that create gives
\* for the source path, returns the path of that StubFile and writes to no
\* other path; it is the path beside the source when no stub of the derived
\* module name is cached or found in a root, and the path of that stub
\* otherwise.
C19_StubWhereCreateResolves ==
    [][/\ (gen.pc = "idle" /\ gen'.pc = "funcs") =>
            /\ objs'[gen'.id].path = ResolvedPath(gen'.path)
            /\ (CreateName(gen'.path) \notin DOMAIN manager.modules
                /\ \A i \in 1..Len(ProbeOrder(CreateName(gen'.path))) :
                      ~Exists(ProbeOrder(CreateName(gen'.path))[i]))
                 => objs'[gen'.id].path = with_suffix(gen'.path, EXTENSION)
       /\ gen.pc = "funcs" =>
            /\ gen'.pc = "funcs" => (gen'.id = gen.id /\ disk' = disk)
            /\ objs'[gen.id].path = objs[gen.id].path
            /\ \A path \in DOMAIN disk \ {objs[gen.id].path} : disk'[path] = disk[path]
            /\ (last'.op = "generate_stub" /\ last'.raised = "") => last'.id = gen.id]_vars

\* generate_stub on /work/example.py has returned the path of the stub of
\* `example` in the root, which it has rewritten
C19_RootStubRewritten ==
    \E id \in DOMAIN objs :
        /\ last = Op("generate_stub", id, "", TRUE)
        /\ objs[id].path = RootJson
        /\ <<"a", RAISES, "ZeroDivisionError">> \in DiskTriples(RootJson)
        /\ ~Exists(StubJson)

(***************************************************************************)
(* Runtime validation (_validators.py): a Validator, the function it is    *)
(* attached to, and the calls of that function it validates.  Values are   *)
(* the literal values of the precondition model.                           *)
(***************************************************************************)
\* number of positional arguments of a call
MaxArgs == 2

\* inspect.Parameter.empty
Empty == [t |-> "empty", n |-> 0, s |-> ""]

\* a parameter of a signature: its name and its default, Empty if none
Parameter(name, default) == [name |-> name, default |-> default]

\* inspect.signature(function), and the signature of a Validator that is
\* attached to no function (None)
Signature(parameters) == [none |-> FALSE, parameters |-> parameters]
NoSignature == [none |-> TRUE, parameters |-> <<>>]

ParamNames(sig) == {sig.parameters[i].name : i \in 1..Len(sig.parameters)}
RankOf(sig, name) == CHOOSE i \in 1..Len(sig.parameters) : sig.parameters[i].name = name

\* dict(d); d.update(e)
Update(d, e) == [k \in DOMAIN d \cup DOMAIN e |-> IF k \in DOMAIN e THEN e[k] ELSE d[k]]

\* dict(d); del d[key]
Without(d, key) == [k \in DOMAIN d \ {key} |-> d[k]]

\* signature.bind(*args, **kwargs): the arguments given, by parameter name;
\* not ok (TypeError) for too many positional arguments, an unknown keyword,
\* two values for one parameter, or a parameter without default left out
Bind(sig, args, kwargs) ==
    LET ps == sig.parameters
        positional == {ps[i].name : i \in 1..(IF Len(args) < Len(ps) THEN Len(args) ELSE Len(ps))}
        ok == /\ Len(args) <= Len(ps)
              /\ DOMAIN kwargs \subseteq ParamNames(sig)
              /\ DOMAIN kwargs \cap positional = {}
              /\ \A i \in 1..Len(ps) :
                    ps[i].default = Empty => (i <= Len(args) \/ ps[i].name \in DOMAIN kwargs)
    IN  [ok |-> ok,
         arguments |-> IF ~ok THEN <<>>
                       ELSE [name \in positional \cup DOMAIN kwargs |->
                               IF name \in positional THEN args[RankOf(sig, name)]
                               ELSE kwargs[name]]]

\* _args_to_vars (lines 27-52): the dict of params, or the TypeError of bind
_args_to_vars(args, kwargs, signature, keep_result) ==
    IF signature.none THEN [raised |-> "", params |-> kwargs]
    ELSE LET kept == IF ~keep_result /\ "result" \in DOMAIN kwargs
                     THEN Without(kwargs, "result") ELSE kwargs
             defaults == [name \in ParamNames(signature) |->
                            signature.parameters[RankOf(signature, name)].default]
             bound == Bind(signature, args, kept)
         IN  IF ~bound.ok THEN [raised |-> "TypeError", params |-> <<>>]
             ELSE [raised |-> "", params |-> Update(Update(kwargs, defaults), bound.arguments)]

\* validators by their source: with the short signature, and with the
\* signature of the function
ShortValidators == {"lambda _: _.a != _.b", "lambda _: _.a != _.b or 'a equals b'",
                    "lambda _: _.b", "lambda _: _.a != _.result"}
ExplicitValidators == {"lambda a, b=1: a != b"}

\* a scheme in the sense of vaa: a class made with data=params that has
\* is_valid() and errors; this one is valid when a differs from b
SchemeValidators == {"class Scheme: is_valid = a != b"}

\* set(val_signature.parameters) == {'_'} (line 148)
IsShort(validator) == validator \in ShortValidators

\* the attributes a short validator reads
Reads(validator) ==
    CASE validator = "lambda _: _.b" -> {"b"}
      [] validator = "lambda _: _.a != _.result" -> {"a", "result"}
      [] OTHER -> {"a", "b"}

\* the outcome of a validator that looked up a missing key of the AttrDict
KeyErrorV == [t |-> "KeyError", n |-> 0, s |-> ""]

\* validator(AttrDict(params)) (lines 55-59, 232)
CallShort(validator, params) ==
    IF ~(Reads(validator) \subseteq DOMAIN params) THEN KeyErrorV
    ELSE CASE validator = "lambda _: _.b" -> params["b"]
           [] validator = "lambda _: _.a != _.result" -> BoolV(params["a"] # params["result"])
           [] validator = "lambda _: _.a != _.b" -> BoolV(params["a"] # params["b"])
           [] OTHER -> IF params["a"] # params["b"] THEN BoolV(TRUE) ELSE StrV("a equals b")

\* the record of a validation: the record the validator was given, its
\* result, the exception raised ("" if none) and the message of the
\* contract error
Verdict(record, result, raised, message) ==
    [done |-> TRUE, record |-> record, result |-> result, raised |-> raised,
     message |-> message]
Pending == [done |-> FALSE, record |-> <<>>, result |-> NoneV, raised |-> "", message |-> ""]

\* the three ends of a validation (lines 233-239, 208-217)
VerdictOf(record, result) ==
    IF result.t = "KeyError" THEN Verdict(record, result, "KeyError", "")
    ELSE IF result.t = "str" THEN Verdict(record, result, "ContractError", result.s)
    ELSE IF Truthy(result) THEN Verdict(record, result, "", "")
    ELSE Verdict(record, result, "ContractError", "")

\* Validator._short_validation (lines 219-239)
ShortValidation(v) ==
    LET vars_ == _args_to_vars(v.args, v.kwargs, v.signature, FALSE)
    IN  IF vars_.raised # "" THEN Verdict(<<>>, NoneV, vars_.raised, "")
        ELSE VerdictOf(vars_.params, CallShort(v.validator, vars_.params))

\* Validator._explicit_validation (lines 201-217): the validator is called
\* as the function is, with its own signature (a, b=1)
ExplicitValidation(v) ==
    LET vars_ == _args_to_vars(v.args, v.kwargs, v.signature, TRUE)
    IN  IF vars_.raised # "" THEN Verdict(<<>>, NoneV, vars_.raised, "")
        ELSE VerdictOf(<<>>, BoolV(vars_.params["a"] # vars_.params["b"]))

\* Validator._vaa_validation (lines 177-199): the scheme is made with the
\* params as data and asked is_valid()
VaaValidation(v) ==
    LET vars_ == _args_to_vars(v.args, v.kwargs, v.signature, FALSE)
    IN  IF vars_.raised # "" THEN Verdict(<<>>, NoneV, vars_.raised, "")
        ELSE IF vars_.params["a"] # vars_.params["b"]
        THEN Verdict(vars_.params, BoolV(TRUE), "", "")
        ELSE Verdict(vars_.params, BoolV(FALSE), "ContractError", "")

\* Validator._wrap_vaa (lines 131-140), vaa being installed: TRUE when it
\* gives a validator; vaa.wrap(simple=False) takes no plain function, and
\* a function has no is_valid
_wrap_vaa(v) == v.validator \in SchemeValidators

\* Validator.init (lines 142-166)
InitValidator(v) ==
    IF IsShort(v.validator)
    THEN [v EXCEPT !.validate = "_short_validation", !.signature = v.function]
    ELSE IF ~_wrap_vaa(v)
    THEN [v EXCEPT !.validate = "_explicit_validation",
                   !.signature = Signature(<<Parameter("a", Empty), Parameter("b", IntV(1))>>)]
    ELSE [v EXCEPT !.validate = "_vaa_validation", !.signature = v.function]

\* self.validate(args, kwargs, exc) once validate is bound to a strategy
Validate(v) ==
    CASE v.validate = "_short_validation" -> ShortValidation(v)
      [] v.validate = "_explicit_validation" -> ExplicitValidation(v)
      [] v.validate = "_vaa_validation" -> VaaValidation(v)

\* a first validation that validates with the strategy of init and leaves
\* validate bound to _init
FirstValidationKeepsInit ==
    /\ ~verdict.done
    /\ validation.validate = "_init"
    /\ validation' = validation
    /\ verdict' = Validate(InitValidator(validation))
    /\ UNCHANGED <<excVars, preVars, stubVars, conVars>>

\* the first validation: Validator._init (lines 168-175)
FirstValidation ==
    /\ ~verdict.done
    /\ validation.validate = "_init"
    /\ validation' = InitValidator(validation)
    /\ verdict' = Validate(validation')
    /\ UNCHANGED <<excVars, preVars, stubVars, conVars>>

\* a later validation by a short validator
LaterShort ==
    /\ ~verdict.done
    /\ validation.validate = "_short_validation"
    /\ verdict' = ShortValidation(validation)
    /\ UNCHANGED <<validation, excVars, preVars, stubVars, conVars>>

\* a later validation by a validator with the signature of the function
LaterExplicit ==
    /\ ~verdict.done
    /\ validation.validate = "_explicit_validation"
    /\ verdict' = ExplicitValidation(validation)
    /\ UNCHANGED <<validation, excVars, preVars, stubVars, conVars>>

\* a later validation by a vaa scheme
LaterVaa ==
    /\ ~verdict.done
    /\ validation.validate = "_vaa_validation"
    /\ verdict' = VaaValidation(validation)
    /\ UNCHANGED <<validation, excVars, preVars, stubVars, conVars>>

\* the decorated function is called again
CallAgain(args, kwargs) ==
    /\ verdict.done
    /\ validation' = [validation EXCEPT !.args = args, !.kwargs = kwargs]
    /\ verdict' = Pending
    /\ UNCHANGED <<excVars, preVars, stubVars, conVars>>

(***************************************************************************)
(* Specification SpecShort: a Validator on `def func(a, b=1)` or           *)
(* `def func(a, result=1)`, or on no function, validates calls with up to  *)
(* MaxArgs positional arguments and any keywords among the parameter names.*)
(***************************************************************************)
FuncAB == Signature(<<Parameter("a", Empty), Parameter("b", IntV(1))>>)
FuncAResult == Signature(<<Parameter("a", Empty), Parameter("result", IntV(1))>>)

\* a validator and the function it decorates
Decorated ==
    {<<"lambda _: _.a != _.b", FuncAB>>, <<"lambda _: _.a != _.b or 'a equals b'", FuncAB>>,
     <<"lambda _: _.b", FuncAB>>, <<"lambda _: _.b", NoSignature>>,
     <<"lambda _: _.a != _.result", FuncAResult>>, <<"lambda a, b=1: a != b", FuncAB>>,
     <<"class Scheme: is_valid = a != b", FuncAB>>}

ArgValues == {IntV(0), IntV(1), IntV(2)}
ArgLists == UNION {[1..n -> ArgValues] : n \in 0..MaxArgs}
KwargsOf(function) ==
    LET names == IF function.none THEN {"a", "b"} ELSE ParamNames(function)
    IN  UNION {[keys -> ArgValues] : keys \in SUBSET names}

InitShort ==
    /\ \E d \in Decorated : \E args \in ArgLists, kwargs \in KwargsOf(d[2]) :
         validation = [validator |-> d[1], function |-> d[2], signature |-> NoSignature,
                       validate |-> "_init", args |-> args, kwargs |-> kwargs]
    /\ verdict = Pending
    /\ funcs = [f \in FuncNames |-> Func(<<>>, <<>>)]
    /\ ExcIdle
    /\ PreIdle
    /\ StubIdle
    /\ ConIdle

NextShort ==
    \/ FirstValidation
    \/ LaterShort
    \/ LaterExplicit
    \/ LaterVaa
    \/ \E args \in ArgLists, kwargs \in KwargsOf(validation.function) : CallAgain(args, kwargs)

SpecShort == InitShort /\ [][NextShort]_vars

(***************************************************************************)
(* Properties of the short validator                                       *)
(***************************************************************************)
\* the record the claim describes for a call: every parameter of the
\* function, with the positional argument at its place, else the keyword
\* argument of its name, else its default
ParameterRecord(function, args, kwargs) ==
    [name \in ParamNames(function) |->
        IF RankOf(function, name) <= Len(args) THEN args[RankOf(function, name)]
        ELSE IF name \in DOMAIN kwargs THEN kwargs[name]
        ELSE function.parameters[RankOf(function, name)].default]

\* C20: for every call that the decorated function accepts, a short
\* validator is given the record of all parameters of the function -
\* positional arguments under their parameter names, keyword arguments under
\* theirs, parameters left out with their defaults - and the contract error
\* is raised exactly when the result of the validator on that record is
\* falsy or a string.
C20_ShortRecordExposesParameters ==
    (/\ verdict.done
     /\ validation.validate = "_short_validation"
     /\ ~validation.function.none
     /\ Bind(validation.function, validation.args, validation.kwargs).ok) =>
        LET record == ParameterRecord(validation.function, validation.args, validation.kwargs)
            result == CallShort(validation.validator, record)
        IN  /\ verdict.record = record
            /\ verdict.raised \in {"", "ContractError"}
            /\ verdict.raised = "ContractError" <=> (result.t = "str" \/ ~Truthy(result))

\* the strategies init chooses among
Strategies == {"_short_validation", "_explicit_validation", "_vaa_validation"}

\* C29: a Validator that has validated no call has validate bound to _init
\* and one that has validated a call has it bound to a strategy; the
\* validation of the first call binds validate to one of the three
\* strategies and gives the verdict of that strategy on the arguments of
\* that call; and once validate is bound to a strategy no step binds it
\* anew or changes the signature init has set.
C29_InitOnce ==
    [][/\ verdict.done => validation.validate \in Strategies
       /\ validation.validate = "_init" =>
            \/ UNCHANGED validation
            \/ /\ validation'.validate \in Strategies
               /\ verdict'.done
               /\ verdict' = Validate(validation')
       /\ validation.validate \in Strategies =>
            /\ validation'.validate = validation.validate
            /\ validation'.signature = validation.signature
            /\ validation'.validator = validation.validator]_vars

\* a call of func(2, 2) has been validated by a scheme: init has bound the
\* vaa strategy and set the signature of the function, and the scheme has
\* refused the call
C29_InitRanAndValidated ==
    /\ verdict.done
    /\ validation.validate = "_vaa_validation"
    /\ validation.signature = validation.function
    /\ validation.args = <<IntV(2), IntV(2)>>
    /\ verdict.raised = "ContractError"

\* what Validator._explicit_validation does with the result of the
\* validator (lines 208-217): the exception it raises, "" if none
RuntimeRaises(validation_result) == VerdictOf(<<>>, validation_result).raised

\* C30: whenever handle_call yields a token for the result a precondition
\* gave on the literal arguments of a call, the explicit validation at run
\* time raises the contract error on that result: no call is flagged that
\* the runtime check accepts.
C30_StaticWithinRuntime ==
    \A k \in 1..Len(runs) :
      YieldedBy(k) # <<>> => RuntimeRaises(runs[k].result) = "ContractError"

\* divide(10, 0) against `lambda a, b: b != 0 or ''` and `lambda a, b: b`:
\* the empty string of the first is flagged by handle_call and refused at
\* run time; the 0 of the second is refused at run time only
C30_EmptyStringRefusedByBoth ==
    /\ PreDone
    /\ Len(runs) = 2
    /\ runs[1].result = StrV("")
    /\ YieldedBy(1) # <<>>
    /\ RuntimeRaises(runs[1].result) = "ContractError"
    /\ runs[2].result = IntV(0)
    /\ YieldedBy(2) = <<>>
    /\ RuntimeRaises(runs[2].result) = "ContractError"

(***************************************************************************)
(* Contract extraction over a whole module (contracts.py, _func.py).  The  *)
(* module is a sequence of statements, the statement at index i on line i: *)
(*   [kind |-> "Assign", name, value]          name = <decorator expr>     *)
(*   [kind |-> "FunctionDef", name, is_async, decorators]                  *)
(*   [kind |-> "ClassDef", name, bases, body]  body: its FunctionDefs      *)
(* Both parsers are given the same statements.  A bare identifier among    *)
(* the decorators is DecoName(n, <<>>): what it was assigned is found by   *)
(* lookup in the statements of the module.  [kind |-> "CallName"] is a     *)
(* call whose callee is a bare identifier: @pre(...).                      *)
(***************************************************************************)
Assign(target, value) == [kind |-> "Assign", name |-> target, value |-> value]
Def(name, is_async, decorators) ==
    [kind |-> "FunctionDef", name |-> name, is_async |-> is_async, decorators |-> decorators]
Class(name, bases, body) == [kind |-> "ClassDef", name |-> name, bases |-> bases, body |-> body]
DecoCallName(n) == [kind |-> "CallName", name |-> n, args |-> <<>>]

\* number of steps after which an extraction that has not ended is given up
MaxSteps == 80

\* isinstance(stmt, ast.FunctionDef) / isinstance(stmt, astroid.FunctionDef):
\* astroid's AsyncFunctionDef is a subclass of its FunctionDef, ast's
\* AsyncFunctionDef is not a subclass of ast.FunctionDef
IsFunctionDef(stmt, backend) ==
    stmt.kind = "FunctionDef" /\ (backend = "astroid" \/ ~stmt.is_async)

\* a function definition found in the module: the class it is a member of
\* ("" for a function of the module) and the line of its statement
Found(stmt, cls, line) ==
    [name |-> stmt.name, decorators |-> stmt.decorators, cls |-> cls, line |-> line]

\* Func._get_funcs_ast / Func._get_funcs_astroid on one statement of the
\* module (_func.py, lines 83-88, 125-130)
FuncsOfStmt(stmt, line, backend) ==
    IF IsFunctionDef(stmt, backend) THEN <<Found(stmt, "", line)>>
    ELSE IF stmt.kind = "ClassDef"
    THEN LET members == SelectSeq(stmt.body, LAMBDA m : IsFunctionDef(m, backend))
         IN  [k \in 1..Len(members) |-> Found(members[k], stmt.name, line)]
    ELSE <<>>

\* Func._get_funcs_ast(tree) (lines 78-88)
_get_funcs_ast(module) ==
    Concat([i \in 1..Len(module) |-> FuncsOfStmt(module[i], i, "ast")])

\* Func._get_funcs_astroid(tree) (lines 120-130)
_get_funcs_astroid(module) ==
    Concat([i \in 1..Len(module) |-> FuncsOfStmt(module[i], i, "astroid")])

\* the statement of the class of that name
ClassNamed(module, name) ==
    module[CHOOSE i \in 1..Len(module) : module[i].kind = "ClassDef" /\ module[i].name = name]

LineOfClass(module, name) ==
    CHOOSE i \in 1..Len(module) : module[i].kind = "ClassDef" /\ module[i].name = name

\* keep the first occurrence of every element
KeepFirst(ss) ==
    LET firsts == {i \in 1..Len(ss) : \A j \in 1..(i - 1) : ss[j] # ss[i]}
    IN  [k \in 1..Cardinality(firsts) |->
            ss[CHOOSE i \in firsts : Cardinality({j \in firsts : j < i}) = k - 1]]

\* every base with its own ancestors behind it, in the order of the bases
RECURSIVE BasesDepthFirst(_, _)
BasesDepthFirst(module, name) ==
    LET bases == ClassNamed(module, name).bases
    IN  Concat([k \in 1..Len(bases) |-> <<bases[k]>> \o BasesDepthFirst(module, bases[k])])

\* cls.ancestors() of astroid (contracts.py, line 99): each base, followed
\* at once by the ancestors of that base, every class once, at its first
\* occurrence (`object`, which has no method with contracts, is left out)
ancestors(module, name) == KeepFirst(BasesDepthFirst(module, name))

\* base_class.mymethods() (line 101): the functions defined in the class
mymethods(module, name) ==
    LET members == SelectSeq(ClassNamed(module, name).body, LAMBDA m : m.kind = "FunctionDef")
    IN  [k \in 1..Len(members) |-> Found(members[k], name, LineOfClass(module, name))]

\* contract.lookup(contract.name)[1] (line 78) for a name used on the given
\* line: the assignment to the name that is closest before that line, if
\* there is one (a later assignment is not visible from that line)
LookupAnyLine(module, name, line) ==
    LET js == {j \in 1..Len(module) : module[j].kind = "Assign" /\ module[j].name = name}
    IN  IF js = {} THEN <<>> ELSE <<CHOOSE j \in js : \A o \in js : o <= j>>

lookup(module, name, line) ==
    LET js == {j \in 1..Len(module) :
                  j < line /\ module[j].kind = "Assign" /\ module[j].name = name}
    IN  IF js = {} THEN <<>> ELSE <<CHOOSE j \in js : \A o \in js : o <= j>>

\* a generator on the stack: _get_contracts over `nodes` (kind "contracts")
\* or _resolve_inherit over the base classes `nodes` (kind "inherit").
\* cls and func name the function whose decorator list the nodes are;
\* direct says that the nodes are that decorator list itself, so that the
\* parents of a node are Decorators, FunctionDef and then the class; the
\* arguments of a call and the value of an assignment have other parents.
CFrame(kind, nodes, cls, func, direct, line) ==
    [kind |-> kind, nodes |-> nodes, i |-> 1, cls |-> cls, func |-> func,
     direct |-> direct, line |-> line]

CTop == cstack[Len(cstack)]

\* _get_parent_class(contract) (lines 108-113): "" stands for None
_get_parent_class(frame) == IF frame.direct THEN frame.cls ELSE ""

\* the base classes the loop of _resolve_inherit goes through (lines
\* 92-99): none without astroid nodes or without a parent class
_resolve_inherit(frame) ==
    IF parse.backend # "astroid" THEN <<>>
    ELSE IF _get_parent_class(frame) = "" THEN <<>>
    ELSE ancestors(source, _get_parent_class(frame))

\* get_contracts(func) (lines 35-43): the generator over its decorators
GetContractsFrame(func) ==
    CFrame("contracts", func.decorators, func.cls, func.name, TRUE, func.line)

\* a Func as far as the claims speak of it: its name and its contracts
BuiltFunc(name, contracts) == [name |-> name, contracts |-> contracts]

NotBuilt == [ast |-> <<>>, astroid |-> <<>>, done |-> {}, current |-> <<>>]
ParseIdle == [pc |-> "idle", backend |-> "", found |-> <<>>, fi |-> 0, steps |-> 0]

CStep(frames, infos) ==
    /\ parse.steps < MaxSteps
    /\ cstack' = frames
    /\ built' = [built EXCEPT !.current = @ \o infos]
    /\ parse' = [parse EXCEPT !.steps = @ + 1]
    /\ UNCHANGED <<source, excVars, preVars, stubVars, valVars>>

Advanced == [cstack EXCEPT ![Len(cstack)].i = @ + 1]

InContracts == cstack # <<>> /\ CTop.kind = "contracts" /\ CTop.i <= Len(CTop.nodes)

\* Func.from_ast(tree) / Func.from_astroid(tree) is called (lines 54-58,
\* 90-94)
FromTree(backend) ==
    /\ parse.pc = "idle"
    /\ backend \notin built.done
    /\ parse' = [pc |-> "funcs", backend |-> backend, fi |-> 1, steps |-> 0,
                 found |-> IF backend = "ast" THEN _get_funcs_ast(source)
                           ELSE _get_funcs_astroid(source)]
    /\ UNCHANGED <<source, cstack, built, excVars, preVars, stubVars, valVars>>

from_ast == FromTree("ast")
from_astroid == FromTree("astroid")

\* `for cinfo in get_contracts(expr)` starts for the next function
StartContracts ==
    /\ parse.pc = "funcs"
    /\ parse.fi <= Len(parse.found)
    /\ parse' = [parse EXCEPT !.pc = "contracts"]
    /\ cstack' = <<GetContractsFrame(parse.found[parse.fi])>>
    /\ built' = [built EXCEPT !.current = <<>>]
    /\ UNCHANGED <<source, excVars, preVars, stubVars, valVars>>

\* a dotted name among the decorators (lines 48-59)
AttrDecorator ==
    /\ InContracts
    /\ CTop.nodes[CTop.i].kind = "Attr"
    /\ LET contract == CTop.nodes[CTop.i]
       IN  IF contract.name \notin SUPPORTED_MARKERS THEN CStep(Advanced, <<>>)
           ELSE CStep(Advanced \o (IF contract.name = "deal.inherit"
                                   THEN <<CFrame("inherit", _resolve_inherit(CTop), "",
                                                 CTop.func, FALSE, 0)>>
                                   ELSE <<>>),
                      <<ContractInfo(LastPart(contract.name), <<>>)>>)

\* a call among the decorators (lines 61-74)
CallDecorator ==
    /\ InContracts
    /\ CTop.nodes[CTop.i].kind \in {"Call", "CallName"}
    /\ LET contract == CTop.nodes[CTop.i]
       IN  IF contract.kind = "CallName" THEN CStep(Advanced, <<>>)
           ELSE IF contract.name = "deal.chain"
           THEN CStep(Advanced \o <<CFrame("contracts", contract.args, CTop.cls, CTop.func,
                                           FALSE, CTop.line)>>, <<>>)
           ELSE IF contract.name \notin SUPPORTED_CONTRACTS THEN CStep(Advanced, <<>>)
           ELSE CStep(Advanced, <<ContractInfo(LastPart(contract.name), contract.args)>>)

\* a bare identifier among the decorators, substituted once only: an
\* assigned value that is itself a bare identifier is not looked up
NameDecoratorOneLevel ==
    /\ InContracts
    /\ CTop.nodes[CTop.i].kind = "Name"
    /\ LET contract == CTop.nodes[CTop.i]
           assigments == lookup(source, contract.name, CTop.line)
       IN  IF parse.backend # "astroid" \/ assigments = <<>> THEN CStep(Advanced, <<>>)
           ELSE IF source[assigments[1]].value.kind = "Name" THEN CStep(Advanced, <<>>)
           ELSE CStep(Advanced \o <<CFrame("contracts", <<source[assigments[1]].value>>,
                                           CTop.cls, CTop.func, FALSE, assigments[1])>>,
                      <<>>)

\* a bare identifier among the decorators (lines 76-89)
NameDecorator ==
    /\ InContracts
    /\ CTop.nodes[CTop.i].kind = "Name"
    /\ LET contract == CTop.nodes[CTop.i]
           assigments == lookup(source, contract.name, CTop.line)
       IN  IF parse.backend # "astroid" \/ assigments = <<>> THEN CStep(Advanced, <<>>)
           ELSE CStep(Advanced \o <<CFrame("contracts", <<source[assigments[1]].value>>,
                                           CTop.cls, CTop.func, FALSE, assigments[1])>>,
                      <<>>)

\* _resolve_inherit comes to the next base class and passes its methods of
\* the name of the function to get_contracts (lines 99-105)
InheritedMethod ==
    /\ cstack # <<>>
    /\ CTop.kind = "inherit"
    /\ CTop.i <= Len(CTop.nodes)
    /\ LET methods == SelectSeq(mymethods(source, CTop.nodes[CTop.i]),
                                LAMBDA m : m.name = CTop.func)
       IN  CStep(Advanced \o Reverse([k \in 1..Len(methods) |-> GetContractsFrame(methods[k])]),
                 <<>>)

\* a generator is exhausted
Exhausted ==
    /\ cstack # <<>>
    /\ CTop.i > Len(CTop.nodes)
    /\ CStep(SubSeq(cstack, 1, Len(cstack) - 1), <<>>)

\* get_contracts has ended: the Func is appended (_func.py, lines 70-75,
\* 112-117)
AppendFunc ==
    /\ parse.pc = "contracts"
    /\ cstack = <<>>
    /\ built' = [built EXCEPT ![parse.backend] =
                    Append(@, BuiltFunc(parse.found[parse.fi].name, built.current)),
                              !.current = <<>>]
    /\ parse' = [parse EXCEPT !.pc = "funcs", !.fi = @ + 1]
    /\ UNCHANGED <<source, cstack, excVars, preVars, stubVars, valVars>>

\* the list of Func values is returned (lines 76, 118)
ReturnFuncs ==
    /\ parse.pc = "funcs"
    /\ parse.fi > Len(parse.found)
    /\ built' = [built EXCEPT !.done = @ \cup {parse.backend}]
    /\ parse' = [ParseIdle EXCEPT !.steps = parse.steps]
    /\ UNCHANGED <<source, cstack, excVars, preVars, stubVars, valVars>>

NextContracts ==
    \/ from_ast
    \/ from_astroid
    \/ StartContracts
    \/ AttrDecorator
    \/ CallDecorator
    \/ NameDecorator
    \/ InheritedMethod
    \/ Exhausted
    \/ AppendFunc
    \/ ReturnFuncs

(***************************************************************************)
(* Specification SpecContracts: Func.from_ast and Func.from_astroid are    *)
(* run, in either order, on the same module.  The module is either a list  *)
(* of assignments to x and y followed by the functions g and h, or the     *)
(* classes A, B(A), C(A), D and E, each with at most a method f, where E   *)
(* has the bases of D; h and E.f have the decorators of g and D.f with     *)
(* every chain written out as separate decorators.                         *)
(***************************************************************************)
PureAttr    == DecoAttr("deal.pure")
SafeAttr    == DecoAttr("deal.safe")
InheritAttr == DecoAttr("deal.inherit")
PreCall     == DecoCall("deal.pre", <<ExprName("p")>>)
PostCall    == DecoCall("deal.post", <<ExprName("q")>>)
HasCall     == DecoCall("deal.has", <<>>)
RaisesCall  == DecoCall("deal.raises", <<ExprName("KeyError")>>)
Chain(as)   == DecoCall("deal.chain", as)
NameX       == DecoName("x", <<>>)
NameY       == DecoName("y", <<>>)

\* the decorators with every deal.chain(c1, ..., cn) replaced by c1, ..., cn
RECURSIVE Flatten(_)
Flatten(decorators) ==
    Concat([k \in 1..Len(decorators) |->
        IF decorators[k].kind = "Call" /\ decorators[k].name = "deal.chain"
        THEN Flatten(decorators[k].args) ELSE <<decorators[k]>>])

AssignMenu ==
    { <<>>,
      <<Assign("x", PureAttr)>>,
      <<Assign("x", PureAttr), Assign("y", NameX)>>,
      <<Assign("x", NameY), Assign("y", NameX)>>,
      <<Assign("x", NameX)>>,
      <<Assign("y", NameX), Assign("x", SafeAttr)>>,
      <<Assign("x", PreCall), Assign("x", Chain(<<SafeAttr, HasCall>>))>> }

FuncDecoMenu ==
    { <<>>, <<NameX>>, <<NameY>>, <<PureAttr, PreCall>>,
      <<Chain(<<RaisesCall, Chain(<<NameX, SafeAttr>>)>>)>>,
      <<DecoCallName("pre")>>, <<DecoAttr("deal.pre"), DecoCall("deal.inherit", <<>>)>>,
      <<InheritAttr>>, <<NameY, PostCall>> }

MethodMenuA == {<<>>, <<Def("f", FALSE, <<PreCall>>)>>}
MethodMenuB == {<<>>, <<Def("f", FALSE, <<PostCall>>)>>, <<Def("f", FALSE, <<InheritAttr, PostCall>>)>>}
MethodMenuC == {<<>>, <<Def("f", FALSE, <<RaisesCall>>)>>, <<Def("f", FALSE, <<InheritAttr>>)>>}
BasesMenuD  == {<<"B", "C">>, <<"B">>, <<>>}
DecoMenuD ==
    { <<InheritAttr>>, <<InheritAttr, SafeAttr>>, <<Chain(<<InheritAttr, PureAttr>>)>>,
      <<Chain(<<RaisesCall, Chain(<<HasCall, PureAttr>>)>>)>>, <<HasCall>> }

ModuleOfNames(assigns, is_async, decorators) ==
    assigns \o <<Def("g", is_async, decorators), Def("h", FALSE, Flatten(decorators))>>

ModuleOfClasses(ma, mb, mc, bases, decorators) ==
    << Class("A", <<>>, ma), Class("B", <<"A">>, mb), Class("C", <<"A">>, mc),
       Class("D", bases, <<Def("f", FALSE, decorators)>>),
       Class("E", bases, <<Def("f", FALSE, Flatten(decorators))>>) >>

InitContracts ==
    /\ \/ \E assigns \in AssignMenu, is_async \in BOOLEAN, decorators \in FuncDecoMenu :
            source = ModuleOfNames(assigns, is_async, decorators)
       \/ \E ma \in MethodMenuA, mb \in MethodMenuB, mc \in MethodMenuC,
             bases \in BasesMenuD, decorators \in DecoMenuD :
            source = ModuleOfClasses(ma, mb, mc, bases, decorators)
    /\ parse = ParseIdle
    /\ cstack = <<>>
    /\ built = NotBuilt
    /\ funcs = [f \in FuncNames |-> Func(<<>>, <<>>)]
    /\ ExcIdle
    /\ PreIdle
    /\ StubIdle
    /\ ValIdle

SpecContracts == InitContracts /\ [][NextContracts]_vars

(***************************************************************************)
(* Properties of the contract extraction                                   *)
(***************************************************************************)
\* keep the last occurrence of every element
KeepLast(ss) == Reverse(KeepFirst(Reverse(ss)))

\* the ancestors of a class in method-resolution order: in the hierarchies
\* of SpecContracts, where two bases share at most the one ancestor A, the
\* C3 linearization is the depth-first list with every class at its last
\* occurrence (D(B, C), B(A), C(A): B, C, A)
MroAncestors(module, name) == KeepLast(BasesDepthFirst(module, name))

\* what the claim describes for a decorator list of a function `func` of the
\* class `cls`: the INHERIT marker, then the contracts of the methods of the
\* same name of the ancestors in the given order, their INHERIT markers
\* resolved in the same way; every other decorator as a lone decorator
RECURSIVE InheritedInOrder(_, _, _, _)
InheritedInOrder(order(_, _), cls, func, decorators) ==
    Concat([k \in 1..Len(decorators) |->
        IF decorators[k] # InheritAttr THEN GetContracts(<<decorators[k]>>)
        ELSE <<ContractInfo("inherit", <<>>)>>
             \o (IF cls = "" THEN <<>>
                 ELSE LET bases == order(source, cls)
                      IN  Concat([b \in 1..Len(bases) |->
                              LET methods == SelectSeq(mymethods(source, bases[b]),
                                                       LAMBDA m : m.name = func)
                              IN  Concat([m \in 1..Len(methods) |->
                                      InheritedInOrder(order, bases[b], func,
                                                       methods[m].decorators)])]))])

\* the functions that carry the INHERIT marker as a decorator of their own
DeclaresInherit(fn) == InheritAttr \in Range(fn.decorators)

\* C21: a function that declares INHERIT gets, from the semantic parser, the
\* marker followed by the contracts of the same-named methods of the
\* ancestors of its class in method-resolution order, with the INHERIT
\* markers of those methods resolved in turn, and only the marker when it is
\* no method; from the fast parser it gets only the marker.
C21_InheritWalksMro ==
    /\ \A k \in 1..Len(built.astroid) :
          LET fn == _get_funcs_astroid(source)[k]
          IN  DeclaresInherit(fn) =>
                built.astroid[k].contracts =
                    InheritedInOrder(MroAncestors, fn.cls, fn.name, fn.decorators)
    /\ \A k \in 1..Len(built.ast) :
          LET fn == _get_funcs_ast(source)[k]
          IN  DeclaresInherit(fn) =>
                built.ast[k].contracts = GetContracts(fn.decorators)

\* the names of the functions of a list of Func values, in order, and the
\* categories of the contracts of each
Names(fs) == [k \in 1..Len(fs) |-> fs[k].name]
Categories(fs) == [k \in 1..Len(fs) |-> [c \in 1..Len(fs[k].contracts) |-> fs[k].contracts[c].name]]

\* C22: once both Func.from_ast and Func.from_astroid have built their list
\* for the same module, the two lists name the same functions in the same
\* order and give every function the same sequence of contract categories.
C22_BackendsAgree ==
    built.done = {"ast", "astroid"} =>
        /\ Names(built.ast) = Names(built.astroid)
        /\ Categories(built.ast) = Categories(built.astroid)

\* the functions whose decorators are bare identifiers or have none inside
NamesOnTop(fn) ==
    /\ \E k \in 1..Len(fn.decorators) : fn.decorators[k].kind = "Name"
    /\ \A k \in 1..Len(fn.decorators) :
          fn.decorators[k].kind = "Name"
          \/ \A n \in Range(Flatten(<<fn.decorators[k]>>)) : n.kind # "Name"

\* the line of the closest assignment to the name before the given line,
\* as a list of one line; empty when there is no such assignment
AssignedBefore(name, line) ==
    LET js == {j \in 1..Len(source) :
                  j < line /\ source[j].kind = "Assign" /\ source[j].name = name}
    IN  IF js = {} THEN <<>> ELSE <<CHOOSE j \in js : \A o \in js : o <= j>>

\* one level of substitution: the contracts of the assigned expression,
\* none when that expression is a bare identifier
SubstitutedOnce(name, line) ==
    LET at == AssignedBefore(name, line)
    IN  IF at = <<>> THEN <<>>
        ELSE IF source[at[1]].value.kind = "Name" THEN <<>>
        ELSE GetContracts(<<source[at[1]].value>>)

\* substitution to the end of the chain of assignments
RECURSIVE SubstitutedThrough(_, _)
SubstitutedThrough(name, line) ==
    LET at == AssignedBefore(name, line)
    IN  IF at = <<>> THEN <<>>
        ELSE IF source[at[1]].value.kind = "Name"
        THEN SubstitutedThrough(source[at[1]].value.name, at[1])
        ELSE GetContracts(<<source[at[1]].value>>)

ExpandedNames(substituted(_, _), fn) ==
    Concat([k \in 1..Len(fn.decorators) |->
        IF fn.decorators[k].kind = "Name" THEN substituted(fn.decorators[k].name, fn.line)
        ELSE GetContracts(<<fn.decorators[k]>>)])

\* C25 as stated: the semantic parser expands a bare identifier by one level
\* of substitution; the closest prior assignment's expression is extracted
\* in its place, and contributes nothing when it is itself a bare identifier.
C25_OneLevelOfSubstitution ==
    \A k \in 1..Len(built.astroid) :
        LET fn == _get_funcs_astroid(source)[k]
        IN  NamesOnTop(fn) =>
              built.astroid[k].contracts = ExpandedNames(SubstitutedOnce, fn)

\* C25 as the code has it: the semantic parser expands a bare identifier by
\* the expression of its closest prior assignment, and when that expression
\* is a bare identifier by the closest assignment before that one, to the
\* end of the chain; the fast parser never expands a bare identifier.
C25_AssignmentsFollowed ==
    /\ \A k \in 1..Len(built.astroid) :
          LET fn == _get_funcs_astroid(source)[k]
          IN  NamesOnTop(fn) =>
                built.astroid[k].contracts = ExpandedNames(SubstitutedThrough, fn)
    /\ \A k \in 1..Len(built.ast) :
          LET fn == _get_funcs_ast(source)[k]
          IN  NamesOnTop(fn) =>
                built.ast[k].contracts =
                    GetContracts(SelectSeq(fn.decorators, LAMBDA d : d.kind # "Name"))

\* with `x = deal.pure` and `y = x`, the function decorated with @y was
\* given the contract pure by the semantic parser
C25_ChainOfTwoFollowed ==
    /\ source = ModuleOfNames(<<Assign("x", PureAttr), Assign("y", NameX)>>, FALSE, <<NameY>>)
    /\ "astroid" \in built.done
    /\ built.astroid[1] = BuiltFunc("g", <<ContractInfo("pure", <<>>)>>)

\* the contracts a finished list gives the function `name` of class `cls`
ContractsOf(fs, found, cls, name) ==
    fs[CHOOSE k \in 1..Len(found) : found[k].cls = cls /\ found[k].name = name].contracts

IsChain(d) == d.kind = "Call" /\ d.name = "deal.chain"

\* a decorator that is no known marker and no known contract call
Unknown(d) ==
    \/ d.kind = "Attr" /\ d.name \notin SUPPORTED_MARKERS
    \/ d.kind = "Call" /\ d.name \notin SUPPORTED_CONTRACTS /\ ~IsChain(d)
    \/ d.kind = "CallName"

\* the property of C26 for one finished list of Func values
ChainsFlattened(fs, found) ==
    /\ \A pair \in {<<"", "g", "", "h">>, <<"D", "f", "E", "f">>} :
          (\E k \in 1..Len(found) : /\ found[k].cls = pair[1] /\ found[k].name = pair[2]
                                    /\ \E d \in Range(found[k].decorators) : IsChain(d))
          => ContractsOf(fs, found, pair[1], pair[2]) = ContractsOf(fs, found, pair[3], pair[4])
    /\ \A k \in 1..Len(found) :
          (\A d \in Range(found[k].decorators) : Unknown(d)) => fs[k].contracts = <<>>

\* C26: a function decorated with deal.chain(c1, ..., cn) gets exactly the
\* contracts that the same function gets with c1, ..., cn as separate
\* decorators in that order, nested chains included, and none for the chain
\* itself; decorators that are neither known markers nor known contract
\* calls give no contract.
C26_ChainFlattened ==
    /\ "ast" \in built.done => ChainsFlattened(built.ast, _get_funcs_ast(source))
    /\ "astroid" \in built.done => ChainsFlattened(built.astroid, _get_funcs_astroid(source))

\* both lists of Func values are built
BothBuilt == built.done = {"ast", "astroid"}

\* C27: contract extraction terminates: no extraction is given up for its
\* length, the generators that are active at once are bounded by the size of
\* the module, every generator's index stays within its nodes, and until
\* both lists are built there is always a next step - also with assignments
\* that refer to themselves or to each other and with ancestor methods that
\* declare INHERIT.
C27_ExtractionTerminates ==
    /\ parse.steps < MaxSteps
    /\ Len(cstack) <= 2 * Len(source) + 2
    /\ \A k \in 1..Len(cstack) : cstack[k].i <= Len(cstack[k].nodes) + 1
    /\ ~BothBuilt => ENABLED NextContracts

\* both parsers finished on `x = y`, `y = x`, `@y def g`: the semantic one
\* went from y to x to the y that has no assignment before it
C27_CyclicAssignmentsEnded ==
    /\ source = ModuleOfNames(<<Assign("x", NameY), Assign("y", NameX)>>, FALSE, <<NameY>>)
    /\ BothBuilt
    /\ built.astroid[1] = BuiltFunc("g", <<>>)

(***************************************************************************)
(* Stub file input and output during generate_stub                         *)
(*                                                                         *)
(* generate_stub has no exception handler: whatever the parser or an       *)
(* extractor raises while the loop of lines 167-175 runs leaves the        *)
(* function before `stub.dump()` of line 176 is reached.                   *)
(***************************************************************************)
\* the names get_exceptions yields for a function, in order
RaisedBy(func) ==
    [k \in 1..Len(get_exceptions(func.body, TRUE)) |->
        get_exceptions(func.body, TRUE)[k].value.n]

\* a generate_stub that dumps what it has when the loop raises
GenFailAfterDump ==
    /\ gen.pc = "funcs"
    /\ Exists(gen.path)
    /\ gen.fi <= Len(_get_funcs(tree))
    /\ disk' = DumpFile(objs[gen.id])
    /\ objs' = IF objs[gen.id].content = EmptyDict THEN objs ELSE AfterWrite(gen.id)
    /\ gen' = GenIdle
    /\ last' = Op("generate_stub", gen.id, "Exception", disk' # disk)
    /\ UNCHANGED <<inits, manager, excVars, preVars, valVars, conVars>>

\* an iteration of `for func in _get_funcs(path=path)` raises after some of
\* the tokens of the function were added, and the exception leaves
\* generate_stub (lines 167-175)
GenFail ==
    /\ gen.pc = "funcs"
    /\ Exists(gen.path)
    /\ gen.fi <= Len(_get_funcs(tree))
    /\ LET func == _get_funcs(tree)[gen.fi]
       IN  \E n \in 0..Len(RaisedBy(func)) :
             objs' = [objs EXCEPT ![gen.id].content =
                         AddEach(@, func.name, RAISES, SubSeq(RaisedBy(func), 1, n))]
    /\ gen' = GenIdle
    /\ last' = Op("generate_stub", gen.id, "Exception", FALSE)
    /\ UNCHANGED <<disk, inits, manager, excVars, preVars, valVars, conVars>>

(***************************************************************************)
(* Specification SpecBoundary: generate_stub on /work/example.py, called   *)
(* again and again on one manager.  The source exists or not, a stub of an *)
(* earlier run lies beside the source or not and in the root or not, and   *)
(* an iteration of the loop may raise.                                     *)
(***************************************************************************)
InitBoundary ==
    /\ \E src \in {NoFile, File(<<>>)}, old \in {NoFile, File(JsonDump(OldContent))},
          root \in {NoFile, File(JsonDump(RootContent))} :
         /\ disk = (SourcePy :> src) @@ (StubJson :> old) @@ (RootJson :> root)
         /\ \E ba \in IF src.exists THEN GenBodies ELSE {<<PassStmt>>},
               bb \in IF src.exists THEN {<<PassStmt>>, <<RaiseName("KeyError")>>}
                      ELSE {<<PassStmt>>} :
              funcs = [f \in FuncNames |->
                         CASE f = "a" -> Func(ba, <<>>)
                           [] f = "b" -> Func(bb, <<>>)
                           [] OTHER   -> Func(<<PassStmt>>, <<>>)]
         /\ tree \in IF src.exists THEN {FlatTree, MethodTree} ELSE {FlatTree}
    /\ stubs = StubsEmpty
    /\ stack = <<>>
    /\ tokens = <<>>
    /\ ncalls = 0
    /\ inits = {}
    /\ objs = <<>>
    /\ manager = [paths |-> <<StubRoot>>, modules |-> EmptyDict]
    /\ gen = GenIdle
    /\ last = NoOp
    /\ PreIdle
    /\ ValIdle
    /\ ConIdle

NextBoundary ==
    \/ GenStart(SourcePy)
    \/ GenFunc
    \/ GenFail
    \/ GenDump

SpecBoundary == InitBoundary /\ [][NextBoundary]_vars

\* a StubFile was made and filled from its file in this step
LoadedInStep ==
    /\ Len(objs') = Len(objs) + 1
    /\ Exists(objs'[Len(objs')].path)
    /\ objs'[Len(objs')].content = JsonLoad(disk[objs'[Len(objs')].path].text)

=============================================================================
